---- MODULE Spec2Model ----
(***************************************************************************)
(* RoadCLI (src/src/roadcli/cli.py): the Command tree, the recursive       *)
(* Parser, the Context it builds and the hook dispatch of CLI.run.         *)
(*                                                                         *)
(* A Python str is a sequence of one-character strings, so that            *)
(* startswith, slicing, split, lower, int() and float() are computed on    *)
(* the characters.  A Python value is a record tagged by its type.         *)
(***************************************************************************)
EXTENDS Integers, Sequences, FiniteSets, TLC

VARIABLES
    root,     \* the Command a Parser is constructed on (CLI.root under run)
    hooks,    \* CLI.hooks: event -> list of registered callables
    args,     \* the token list given to Parser.parse / CLI.run
    pc,       \* position of the call in progress
    ps,       \* the parser's state: call stack, Contexts, return value, exception
    hk,       \* index of the next hook of the list CLI.run is iterating
    result,   \* the handler's return value inside CLI.run
    raised,   \* the exception CLI.run caught in its except clause (None: none)
    status,   \* what CLI.run returned, or the exception that escaped it (None: running)
    log       \* the calls made so far, in order: by CLI.run, or of the registration methods

vars == <<root, hooks, args, pc, ps, hk, result, raised, status, log>>

-----------------------------------------------------------------------------
(* Bounds of the model *)

\* longest token list given to Parser.parse / CLI.run
MaxLen == 4

\* most hooks registered on a CLI
MaxHooks == 2

\* longest token list given to CLI.run
MaxRunLen == 3

\* most registration calls made on a CLI
MaxCalls == 3

\* longest token list of a parse followed to its end
MaxLiveLen == 3

-----------------------------------------------------------------------------
(* Python values *)

PyNone == [t |-> "none"]
PyStr(s) == [t |-> "str", v |-> s]
PyInt(n) == [t |-> "int", v |-> n]
PyBool(b) == [t |-> "bool", v |-> b]
\* a float written m / 10^k, k minimal
PyFloat(m, k) == [t |-> "float", v |-> <<m, k>>]
PyList(s) == [t |-> "list", v |-> s]
\* a callable, known by its name
Fn(f) == [t |-> "fn", v |-> f]
\* the ValueError int(s) or float(s) raises
ValueError(s) == [t |-> "raise", cls |-> "ValueError", v |-> s]

IsRaise(x) == x.t = "raise"

\* an empty dict
EmptyDict == <<>>

\* d[k] = x on a dict
DictSet(d, k, x) == [y \in (DOMAIN d) \cup {k} |-> IF y = k THEN x ELSE d[y]]

-----------------------------------------------------------------------------
(* str operations *)

\* s.startswith(p)
StartsWith(s, p) == Len(s) >= Len(p) /\ SubSeq(s, 1, Len(p)) = p

\* s[n:]
DropFirst(s, n) == SubSeq(s, n + 1, Len(s))

\* c in s
Contains(s, c) == \E k \in 1..Len(s) : s[k] = c

\* s.find(c) for a c that occurs in s, 1-based
FirstIndex(s, c) == CHOOSE k \in 1..Len(s) : s[k] = c /\ \A j \in 1..(k - 1) : s[j] # c

\* s.split(c, 1) for a c that occurs in s
SplitOnce(s, c) == <<SubSeq(s, 1, FirstIndex(s, c) - 1), DropFirst(s, FirstIndex(s, c))>>

Upper == <<"A","B","C","D","E","F","G","H","I","J","K","L","M",
           "N","O","P","Q","R","S","T","U","V","W","X","Y","Z">>
LowerOf == <<"a","b","c","d","e","f","g","h","i","j","k","l","m",
             "n","o","p","q","r","s","t","u","v","w","x","y","z">>

LowerChar(c) == IF \E k \in 1..Len(Upper) : Upper[k] = c
                THEN LowerOf[CHOOSE k \in 1..Len(Upper) : Upper[k] = c]
                ELSE c

\* s.lower()
Lower(s) == [k \in 1..Len(s) |-> LowerChar(s[k])]

Digits == <<"0","1","2","3","4","5","6","7","8","9">>

IsDigit(c) == \E k \in 1..Len(Digits) : Digits[k] = c

DigitVal(c) == (CHOOSE k \in 1..Len(Digits) : Digits[k] = c) - 1

AllDigits(s) == \A k \in 1..Len(s) : IsDigit(s[k])

RECURSIVE DecVal(_)
\* the number a string of digits writes
DecVal(s) == IF s = <<>> THEN 0
             ELSE DecVal(SubSeq(s, 1, Len(s) - 1)) * Len(Digits) + DigitVal(s[Len(s)])

RECURSIVE DecStr(_)
\* the digits of n >= 0
DecStr(n) == IF n < Len(Digits) THEN <<Digits[n + 1]>>
             ELSE DecStr(n \div Len(Digits)) \o <<Digits[(n % Len(Digits)) + 1]>>

HasSign(s) == s # <<>> /\ s[1] \in {"+", "-"}

Unsigned(s) == IF HasSign(s) THEN DropFirst(s, 1) ELSE s

Signed(s, n) == IF s # <<>> /\ s[1] = "-" THEN 0 - n ELSE n

RECURSIVE Pow10(_)
Pow10(k) == IF k = 0 THEN 1 ELSE Len(Digits) * Pow10(k - 1)

RECURSIVE StripZeros(_)
\* the fraction digits without trailing zeros
StripZeros(s) == IF s # <<>> /\ s[Len(s)] = "0" THEN StripZeros(SubSeq(s, 1, Len(s) - 1)) ELSE s

\* int(s): an optional sign and one or more digits (the strings of the model
\* hold no white space and no underscore)
IntOf(s) ==
    LET u == Unsigned(s) IN
    IF u # <<>> /\ AllDigits(u) THEN PyInt(Signed(s, DecVal(u))) ELSE ValueError(s)

\* float(s): an optional sign, digits, and an optional point and digits, at
\* least one digit in all (the strings of the model hold no exponent and none
\* of inf, nan)
FloatOf(s) ==
    LET u == Unsigned(s)
        whole == IF Contains(u, ".") THEN SplitOnce(u, ".")[1] ELSE u
        frac == IF Contains(u, ".") THEN StripZeros(SplitOnce(u, ".")[2]) ELSE <<>>
    IN  IF AllDigits(whole) /\ AllDigits(frac)
           /\ (IF Contains(u, ".") THEN Len(u) > 1 ELSE u # <<>>)
        THEN PyFloat(Signed(s, DecVal(whole \o frac)), Len(frac))
        ELSE ValueError(s)

\* str(x) of a str, int, bool or float
StrOf(x) ==
    CASE x.t = "str" -> x.v
      [] x.t = "int" -> IF x.v < 0 THEN <<"-">> \o DecStr(0 - x.v) ELSE DecStr(x.v)
      [] x.t = "bool" -> IF x.v THEN <<"T","r","u","e">> ELSE <<"F","a","l","s","e">>
      [] x.t = "float" ->
           LET m == IF x.v[1] < 0 THEN 0 - x.v[1] ELSE x.v[1]
               k == x.v[2]
               f == DecStr(m % Pow10(k))
               pad == [j \in 1..(k - Len(f)) |-> "0"]
           IN  (IF x.v[1] < 0 THEN <<"-">> ELSE <<>>)
               \o DecStr(m \div Pow10(k)) \o <<".">>
               \o (IF k = 0 THEN <<"0">> ELSE pad \o f)

-----------------------------------------------------------------------------
(* Option, Argument, Command *)

Option(name, short, type, default) ==
    [name |-> name, short |-> short, type |-> type, default |-> default,
     required |-> FALSE, multiple |-> FALSE]

Argument(name, type, default, nargs) ==
    [name |-> name, type |-> type, required |-> TRUE, default |-> default, nargs |-> nargs]

Command(name, handler, options, arguments, subcommands) ==
    [name |-> name, handler |-> handler, options |-> options,
     arguments |-> arguments, subcommands |-> subcommands]

\* Context(): empty dicts, no parent, no command
NewContext == [options |-> EmptyDict, arguments |-> EmptyDict, parent |-> 0, command |-> PyNone]

-----------------------------------------------------------------------------
(* Parser *)

\* Parser._find_option: the first Option of the command named name, or None
FindOption(command, name) ==
    IF \E k \in 1..Len(command.options) : command.options[k].name = name
    THEN command.options[CHOOSE k \in 1..Len(command.options) :
            /\ command.options[k].name = name
            /\ \A j \in 1..(k - 1) : command.options[j].name # name]
    ELSE PyNone

\* Parser._find_option_short: the first Option of the command whose short is short
FindOptionShort(command, short) ==
    IF \E k \in 1..Len(command.options) : command.options[k].short = short
    THEN command.options[CHOOSE k \in 1..Len(command.options) :
            /\ command.options[k].short = short
            /\ \A j \in 1..(k - 1) : command.options[j].short # short]
    ELSE PyNone

\* ("true", "1", "yes", "on")
Truthy == {<<"t","r","u","e">>, <<"1">>, <<"y","e","s">>, <<"o","n">>}

\* _convert comparing value itself, not value.lower()
Convert_NoLower(value, typ) ==
    IF value = PyNone THEN PyNone
    ELSE IF typ = "bool" THEN PyBool(value.v \in Truthy)
    ELSE CASE typ = "str" -> PyStr(value.v)
           [] typ = "int" -> IntOf(value.v)
           [] typ = "float" -> FloatOf(value.v)

\* _convert taking a missing value of a bool Option as a set flag
Convert_NoneIsFlag(value, typ) ==
    IF value = PyNone THEN (IF typ = "bool" THEN PyBool(TRUE) ELSE PyNone)
    ELSE IF typ = "bool" THEN PyBool(Lower(value.v) \in Truthy)
    ELSE CASE typ = "str" -> PyStr(value.v)
           [] typ = "int" -> IntOf(value.v)
           [] typ = "float" -> FloatOf(value.v)

\* Parser._convert: value is None or a str
Convert(value, typ) ==
    IF value = PyNone THEN PyNone
    ELSE IF typ = "bool" THEN PyBool(Lower(value.v) \in Truthy)
    ELSE CASE typ = "str" -> PyStr(value.v)
           [] typ = "int" -> IntOf(value.v)
           [] typ = "float" -> FloatOf(value.v)

\* the first Argument of the command named name
FindArgument(command, name) ==
    command.arguments[CHOOSE k \in 1..Len(command.arguments) :
        /\ command.arguments[k].name = name
        /\ \A j \in 1..(k - 1) : command.arguments[j].name # name]

\* lines 134-136: ctx.options after the loop over the command's options
DefaultedOptions(command, ctx) ==
    [n \in (DOMAIN ctx.options) \cup {command.options[k].name : k \in 1..Len(command.options)} |->
       IF n \in DOMAIN ctx.options THEN ctx.options[n] ELSE FindOption(command, n).default]

\* lines 137-139: ctx.arguments after the loop over the command's arguments
DefaultedArguments(command, ctx) ==
    [n \in (DOMAIN ctx.arguments) \cup {command.arguments[k].name : k \in 1..Len(command.arguments)} |->
       IF n \in DOMAIN ctx.arguments THEN ctx.arguments[n] ELSE FindArgument(command, n).default]

\* _apply_defaults without its second loop
ApplyDefaults_OptionsOnly(command, ctx) ==
    [ctx EXCEPT !.options = DefaultedOptions(command, ctx)]

\* Parser._apply_defaults on a Context
ApplyDefaults(command, ctx) ==
    [ctx EXCEPT !.options = DefaultedOptions(command, ctx),
                !.arguments = DefaultedArguments(command, ctx)]

(* The state of a parse: frames is the stack of Parser.parse calls (the last  *)
(* is the running one), heap the Contexts created so far (a Context is known  *)
(* by its index; parent 0 is None), ret the Context the call that just ended  *)
(* returned (0: none), exc the exception being raised (None: none).  scanned  *)
(* records, for each turn of a while loop, the position in the whole token    *)
(* list of the token at the cursor and the Context of the call; base is the   *)
(* number of tokens before a call's args in the whole token list.             *)

\* Parser(command).parse(tokens): lines 61-66, a new call
Call(P, command, tokens, base) ==
    [P EXCEPT
       !.heap = Append(P.heap, [NewContext EXCEPT !.command = command]),
       !.frames = Append(P.frames,
                    [command |-> command, args |-> tokens, i |-> 0, arg_idx |-> 0,
                     collected_args |-> EmptyDict, ctx |-> Len(P.heap) + 1, base |-> base])]

NoParse == [frames |-> <<>>, heap |-> <<>>, ret |-> 0, exc |-> PyNone, scanned |-> <<>>]

Top(P) == P.frames[Len(P.frames)]

\* args[i], the token at the cursor of the running call
Cur(P) == Top(P).args[Top(P).i + 1]

\* args[i] if i < len(args) else None
ArgAt(f, i) == IF i < Len(f.args) THEN PyStr(f.args[i + 1]) ELSE PyNone

IsLong(arg) == StartsWith(arg, <<"-", "-">>)

IsShort(arg) == ~IsLong(arg) /\ StartsWith(arg, <<"-">>) /\ Len(arg) = 2

InLoop(P) == P.exc = PyNone /\ P.ret = 0 /\ P.frames # <<>> /\ Top(P).i < Len(Top(P).args)

Scan(P) == [P EXCEPT !.scanned = Append(P.scanned,
                [pos |-> Top(P).base + Top(P).i + 1, ctx |-> Top(P).ctx])]

\* ctx.options[opt.name] = value, the token as it is
StoreOption_Raw(P, opt, value, j) ==
    [P EXCEPT !.heap[Top(P).ctx].options = DictSet(@, opt.name, value),
              !.frames[Len(P.frames)].i = j]

\* ctx.options.setdefault(opt.name, ...): the first value given is kept
StoreOption_FirstWins(P, opt, value, j) ==
    LET n == Len(P.frames)
        x == Convert(value, opt.type)
    IN  IF IsRaise(x) THEN [P EXCEPT !.exc = x]
        ELSE IF opt.name \in DOMAIN P.heap[Top(P).ctx].options
        THEN [P EXCEPT !.frames[n].i = j]
        ELSE [P EXCEPT !.heap[Top(P).ctx].options = DictSet(@, opt.name, x),
                       !.frames[n].i = j]

\* ctx.options[opt.name] = self._convert(value, opt.type), then i = j
StoreOption(P, opt, value, j) ==
    LET n == Len(P.frames)
        x == Convert(value, opt.type)
    IN  IF IsRaise(x) THEN [P EXCEPT !.exc = x]
        ELSE [P EXCEPT !.heap[Top(P).ctx].options = DictSet(@, opt.name, x),
                       !.frames[n].i = j]

\* the long option branch with i += 1 run for "--key=value" too
LongOption_EqSkipsNext(P) ==
    LET f == Top(P)
        n == Len(P.frames)
        rest == DropFirst(Cur(P), 2)
        eq == Contains(rest, "=")
        key == IF eq THEN SplitOnce(rest, "=")[1] ELSE rest
        i == f.i + 1
        value == IF eq THEN PyStr(SplitOnce(rest, "=")[2]) ELSE ArgAt(f, i)
        opt == FindOption(f.command, key)
    IN  IF opt # PyNone THEN StoreOption(Scan(P), opt, value, i + 1)
        ELSE [Scan(P) EXCEPT !.frames[n].i = i + 1]

\* the long option branch taking the value token only for a known option
LongOption_UnknownKeepsValue(P) ==
    LET f == Top(P)
        n == Len(P.frames)
        rest == DropFirst(Cur(P), 2)
        eq == Contains(rest, "=")
        key == IF eq THEN SplitOnce(rest, "=")[1] ELSE rest
        i == IF eq THEN f.i ELSE f.i + 1
        value == IF eq THEN PyStr(SplitOnce(rest, "=")[2]) ELSE ArgAt(f, i)
        opt == FindOption(f.command, key)
    IN  IF opt # PyNone THEN StoreOption(Scan(P), opt, value, i + 1)
        ELSE [Scan(P) EXCEPT !.frames[n].i = f.i + 1]

\* lines 71-81 and 106: a token that starts with "--"
LongOption(P) ==
    LET f == Top(P)
        n == Len(P.frames)
        rest == DropFirst(Cur(P), 2)
        eq == Contains(rest, "=")
        key == IF eq THEN SplitOnce(rest, "=")[1] ELSE rest
        i == IF eq THEN f.i ELSE f.i + 1
        value == IF eq THEN PyStr(SplitOnce(rest, "=")[2]) ELSE ArgAt(f, i)
        opt == FindOption(f.command, key)
    IN  IF opt # PyNone THEN StoreOption(Scan(P), opt, value, i + 1)
        ELSE [Scan(P) EXCEPT !.frames[n].i = i + 1]

\* the short option branch with i += 1 run for an unknown short option too
ShortOption_UnknownTakesValue(P) ==
    LET f == Top(P)
        n == Len(P.frames)
        opt == FindOptionShort(f.command, Cur(P)[2])
    IN  IF opt # PyNone THEN StoreOption(Scan(P), opt, ArgAt(f, f.i + 1), f.i + 2)
        ELSE [Scan(P) EXCEPT !.frames[n].i = f.i + 2]

\* the short option branch leaving the loop turn, for an unknown short
\* option, before the cursor is advanced (a continue ahead of line 106)
ShortOption_NoAdvance(P) ==
    LET f == Top(P)
        opt == FindOptionShort(f.command, Cur(P)[2])
    IN  IF opt # PyNone THEN StoreOption(Scan(P), opt, ArgAt(f, f.i + 1), f.i + 2)
        ELSE P

\* lines 82-88 and 106: "-" and one character
ShortOption(P) ==
    LET f == Top(P)
        n == Len(P.frames)
        opt == FindOptionShort(f.command, Cur(P)[2])
    IN  IF opt # PyNone THEN StoreOption(Scan(P), opt, ArgAt(f, f.i + 1), f.i + 2)
        ELSE [Scan(P) EXCEPT !.frames[n].i = f.i + 1]

\* sub_parser.parse(args[i:]): the child is given its own name too
Delegate_AllArgs(P) ==
    LET f == Top(P) IN
    Call(Scan(P), f.command.subcommands[Cur(P)], DropFirst(f.args, f.i), f.base + f.i)

\* a delegation that first stores the collected values, as lines 108-109 do
Delegate_KeepsCollected(P) ==
    LET f == Top(P)
        ctx == P.heap[f.ctx]
        kept == [P EXCEPT !.heap[f.ctx].arguments =
                    [a \in (DOMAIN ctx.arguments) \cup (DOMAIN f.collected_args) |->
                       IF a \in DOMAIN f.collected_args THEN PyList(f.collected_args[a])
                       ELSE ctx.arguments[a]]]
    IN  Call(Scan(kept), f.command.subcommands[Cur(P)], DropFirst(f.args, f.i + 1), f.base + f.i + 1)

\* lines 90-92: a subcommand's name; the call is suspended in sub_parser.parse
Delegate(P) ==
    LET f == Top(P) IN
    Call(Scan(P), f.command.subcommands[Cur(P)], DropFirst(f.args, f.i + 1), f.base + f.i + 1)

\* positional binding with insert(0, ...) in place of append
Positional_Prepend(P) ==
    LET f == Top(P)
        n == Len(P.frames)
        arg_def == f.command.arguments[f.arg_idx + 1]
        x == Convert(PyStr(Cur(P)), arg_def.type)
    IN  IF f.arg_idx < Len(f.command.arguments)
        THEN IF IsRaise(x) THEN [Scan(P) EXCEPT !.exc = x]
             ELSE IF arg_def.nargs \in {"*", "+"}
             THEN [Scan(P) EXCEPT
                     !.frames[n].collected_args =
                         DictSet(@, arg_def.name,
                                 <<x>> \o (IF arg_def.name \in DOMAIN f.collected_args
                                           THEN f.collected_args[arg_def.name] ELSE <<>>)),
                     !.frames[n].i = f.i + 1]
             ELSE [Scan(P) EXCEPT
                     !.heap[f.ctx].arguments = DictSet(@, arg_def.name, x),
                     !.frames[n].arg_idx = f.arg_idx + 1,
                     !.frames[n].i = f.i + 1]
        ELSE [Scan(P) EXCEPT !.frames[n].i = f.i + 1]

\* positional binding without arg_idx += 1
Positional_NoAdvance(P) ==
    LET f == Top(P)
        n == Len(P.frames)
        arg_def == f.command.arguments[f.arg_idx + 1]
        x == Convert(PyStr(Cur(P)), arg_def.type)
    IN  IF f.arg_idx < Len(f.command.arguments)
        THEN IF IsRaise(x) THEN [Scan(P) EXCEPT !.exc = x]
             ELSE IF arg_def.nargs \in {"*", "+"}
             THEN [Scan(P) EXCEPT
                     !.frames[n].collected_args =
                         DictSet(@, arg_def.name,
                                 Append(IF arg_def.name \in DOMAIN f.collected_args
                                        THEN f.collected_args[arg_def.name] ELSE <<>>, x)),
                     !.frames[n].i = f.i + 1]
             ELSE [Scan(P) EXCEPT
                     !.heap[f.ctx].arguments = DictSet(@, arg_def.name, x),
                     !.frames[n].i = f.i + 1]
        ELSE [Scan(P) EXCEPT !.frames[n].i = f.i + 1]

\* positional binding with arg_idx += 1 after a variadic Argument's token too
Positional_VariadicAdvances(P) ==
    LET f == Top(P)
        n == Len(P.frames)
        arg_def == f.command.arguments[f.arg_idx + 1]
        x == Convert(PyStr(Cur(P)), arg_def.type)
    IN  IF f.arg_idx < Len(f.command.arguments)
        THEN IF IsRaise(x) THEN [Scan(P) EXCEPT !.exc = x]
             ELSE IF arg_def.nargs \in {"*", "+"}
             THEN [Scan(P) EXCEPT
                     !.frames[n].collected_args =
                         DictSet(@, arg_def.name,
                                 Append(IF arg_def.name \in DOMAIN f.collected_args
                                        THEN f.collected_args[arg_def.name] ELSE <<>>, x)),
                     !.frames[n].arg_idx = f.arg_idx + 1,
                     !.frames[n].i = f.i + 1]
             ELSE [Scan(P) EXCEPT
                     !.heap[f.ctx].arguments = DictSet(@, arg_def.name, x),
                     !.frames[n].arg_idx = f.arg_idx + 1,
                     !.frames[n].i = f.i + 1]
        ELSE [Scan(P) EXCEPT !.frames[n].i = f.i + 1]

\* lines 96-106: any other token
Positional(P) ==
    LET f == Top(P)
        n == Len(P.frames)
        arg_def == f.command.arguments[f.arg_idx + 1]
        x == Convert(PyStr(Cur(P)), arg_def.type)
    IN  IF f.arg_idx < Len(f.command.arguments)
        THEN IF IsRaise(x) THEN [Scan(P) EXCEPT !.exc = x]
             ELSE IF arg_def.nargs \in {"*", "+"}
             THEN [Scan(P) EXCEPT
                     !.frames[n].collected_args =
                         DictSet(@, arg_def.name,
                                 Append(IF arg_def.name \in DOMAIN f.collected_args
                                        THEN f.collected_args[arg_def.name] ELSE <<>>, x)),
                     !.frames[n].i = f.i + 1]
             ELSE [Scan(P) EXCEPT
                     !.heap[f.ctx].arguments = DictSet(@, arg_def.name, x),
                     !.frames[n].arg_idx = f.arg_idx + 1,
                     !.frames[n].i = f.i + 1]
        ELSE [Scan(P) EXCEPT !.frames[n].i = f.i + 1]

\* the exception a parser that enforces `required` would raise
MissingRequired(name) == [t |-> "raise", cls |-> "MissingRequired", v |-> name]

\* the end of a call that refuses a Context in which a required Option or
\* Argument was not given
Finish_EnforcesRequired(P) ==
    LET f == Top(P)
        ctx == P.heap[f.ctx]
        filled == [ctx EXCEPT !.arguments =
                     [a \in (DOMAIN ctx.arguments) \cup (DOMAIN f.collected_args) |->
                        IF a \in DOMAIN f.collected_args THEN PyList(f.collected_args[a])
                        ELSE ctx.arguments[a]]]
        missing == {f.command.options[k].name : k \in {j \in 1..Len(f.command.options) :
                        /\ f.command.options[j].required
                        /\ f.command.options[j].name \notin DOMAIN filled.options}}
                   \cup {f.command.arguments[k].name : k \in {j \in 1..Len(f.command.arguments) :
                        /\ f.command.arguments[j].required
                        /\ f.command.arguments[j].name \notin DOMAIN filled.arguments}}
    IN  IF missing # {}
        THEN [P EXCEPT !.exc = MissingRequired(CHOOSE n \in missing : TRUE)]
        ELSE [P EXCEPT !.heap[f.ctx] = ApplyDefaults(f.command, filled),
                       !.ret = f.ctx,
                       !.frames = SubSeq(P.frames, 1, Len(P.frames) - 1)]

\* the end of a call that refuses a "+" Argument with no token
Finish_EnforcesArity(P) ==
    LET f == Top(P)
        ctx == P.heap[f.ctx]
        filled == [ctx EXCEPT !.arguments =
                     [a \in (DOMAIN ctx.arguments) \cup (DOMAIN f.collected_args) |->
                        IF a \in DOMAIN f.collected_args THEN PyList(f.collected_args[a])
                        ELSE ctx.arguments[a]]]
        missing == {f.command.arguments[k].name : k \in {j \in 1..Len(f.command.arguments) :
                        /\ f.command.arguments[j].nargs = "+"
                        /\ f.command.arguments[j].name \notin DOMAIN f.collected_args}}
    IN  IF missing # {}
        THEN [P EXCEPT !.exc = MissingRequired(CHOOSE n \in missing : TRUE)]
        ELSE [P EXCEPT !.heap[f.ctx] = ApplyDefaults(f.command, filled),
                       !.ret = f.ctx,
                       !.frames = SubSeq(P.frames, 1, Len(P.frames) - 1)]

\* lines 108-112: the loop is over
Finish(P) ==
    LET f == Top(P)
        ctx == P.heap[f.ctx]
        filled == [ctx EXCEPT !.arguments =
                     [a \in (DOMAIN ctx.arguments) \cup (DOMAIN f.collected_args) |->
                        IF a \in DOMAIN f.collected_args THEN PyList(f.collected_args[a])
                        ELSE ctx.arguments[a]]]
    IN  [P EXCEPT !.heap[f.ctx] = ApplyDefaults(f.command, filled),
                  !.ret = f.ctx,
                  !.frames = SubSeq(P.frames, 1, Len(P.frames) - 1)]

\* lines 92-94: sub_parser.parse returned sub_ctx
Return(P) ==
    [P EXCEPT !.heap[P.ret].parent = Top(P).ctx,
              !.frames = SubSeq(P.frames, 1, Len(P.frames) - 1)]

Running(P) == P.exc = PyNone /\ P.frames # <<>>

\* a token at the cursor that is neither a long nor a short option
IsBare(arg) == ~IsLong(arg) /\ ~IsShort(arg)

\* the loop with lines 96-104 ahead of lines 90-94: a free positional slot
\* takes the token before the subcommands are looked up
Step_PositionalFirst(P) ==
    IF P.ret # 0 THEN Return(P)
    ELSE IF ~InLoop(P) THEN Finish(P)
    ELSE IF IsLong(Cur(P)) THEN LongOption(P)
    ELSE IF IsShort(Cur(P)) THEN ShortOption(P)
    ELSE IF Top(P).arg_idx < Len(Top(P).command.arguments) THEN Positional(P)
    ELSE IF Cur(P) \in DOMAIN Top(P).command.subcommands THEN Delegate(P)
    ELSE Positional(P)

\* one step of Parser.parse
Step(P) ==
    IF P.ret # 0 THEN Return(P)
    ELSE IF ~InLoop(P) THEN Finish(P)
    ELSE IF IsLong(Cur(P)) THEN LongOption(P)
    ELSE IF IsShort(Cur(P)) THEN ShortOption(P)
    ELSE IF Cur(P) \in DOMAIN Top(P).command.subcommands THEN Delegate(P)
    ELSE Positional(P)

RECURSIVE Steps(_)
Steps(P) == IF Running(P) THEN Steps(Step(P)) ELSE P

\* Parser(command).parse(tokens), run to its return or its exception
Parse(command, tokens) == Steps(Call(NoParse, command, tokens, 0))

-----------------------------------------------------------------------------
(* The Commands and token lists the model draws from *)

\* names
name_ == <<"n","a","m","e">>
count_ == <<"c","o","u","n","t">>
verbose_ == <<"v","e","r","b","o","s","e">>
ratio_ == <<"r","a","t","i","o">>
src_ == <<"s","r","c">>
files_ == <<"f","i","l","e","s">>
nums_ == <<"n","u","m","s">>
greet_ == <<"g","r","e","e","t">>
db_ == <<"d","b">>
migrate_ == <<"m","i","g","r","a","t","e">>
up_ == <<"u","p">>
bogus_ == <<"b","o","g","u","s">>
Ada == <<"A","d","a">>
World == <<"W","o","r","l","d">>
who_ == <<"w","h","o">>
dest_ == <<"d","e","s","t">>

\* "--" + key
LongTok(key) == <<"-", "-">> \o key
\* "-" + short
ShortTok(short) == <<"-", short>>
\* "--" + key + "=" + value
EqTok(key, value) == LongTok(key) \o <<"=">> \o value

CmdUp == Command(up_, Fn("up"), <<>>, <<>>, <<>>)

CmdMigrate == Command(migrate_, Fn("db_migrate"), <<>>, <<>>, [k \in {up_} |-> CmdUp])

\* Group("db"): a Command with the no-op handler and its children
CmdDb == Command(db_, Fn("group"), <<>>, <<>>, [k \in {migrate_} |-> CmdMigrate])

\* greet: name may be repeated (multiple), count is required, and so is the
\* positional who
CmdGreet ==
    Command(greet_, Fn("greet"),
            <<[Option(name_, "n", "str", PyStr(World)) EXCEPT !.multiple = TRUE],
              [Option(count_, "c", "int", PyInt(1)) EXCEPT !.required = TRUE]>>,
            <<Argument(who_, "str", PyNone, "")>>, <<>>)

CmdFlags ==
    Command(<<"f","l","a","g","s">>, Fn("flags"),
            <<Option(verbose_, "v", "bool", PyBool(FALSE)), Option(ratio_, "", "float", PyNone)>>,
            <<>>, <<>>)

CmdCopy ==
    Command(<<"c","o","p","y">>, Fn("copy"),
            <<Option(verbose_, "v", "bool", PyBool(FALSE))>>,
            <<Argument(src_, "str", PyNone, ""), Argument(files_, "str", PyNone, "*")>>,
            [k \in {db_} |-> CmdDb])

CmdSum ==
    Command(<<"s","u","m">>, Fn("sum"),
            <<Option(verbose_, "v", "bool", PyBool(FALSE))>>,
            <<Argument(nums_, "int", PyList(<<>>), "+")>>,
            <<>>)

\* two Arguments of one token each, of different types
CmdMove ==
    Command(<<"m","o","v","e">>, Fn("move"), <<>>,
            <<Argument(src_, "str", PyNone, ""), Argument(ratio_, "float", PyNone, "")>>,
            <<>>)

\* a variadic Argument with an Argument declared after it
CmdPack ==
    Command(<<"p","a","c","k">>, Fn("pack"), <<>>,
            <<Argument(files_, "str", PyNone, "*"), Argument(dest_, "str", PyStr(World), "")>>,
            <<>>)

\* a root Command with options of its own above the example's commands
CmdApp ==
    Command(<<"a","p","p">>, Fn("app"),
            <<Option(verbose_, "v", "bool", PyBool(FALSE))>>, <<>>,
            [k \in {greet_, db_} |-> IF k = greet_ THEN CmdGreet ELSE CmdDb])

\* each Command with the tokens its token lists are made of
Scenarios ==
    { [command |-> CmdGreet,
       tokens |-> {LongTok(name_), Ada, LongTok(count_), <<"3">>, <<"-","3">>}],
      [command |-> CmdGreet,
       tokens |-> {LongTok(name_), ShortTok("n"), Ada, LongTok(bogus_), ShortTok("z")}],
      [command |-> CmdFlags,
       tokens |-> {LongTok(verbose_), <<"T","r","u","e">>, <<"F","a","l","s","e">>,
                   LongTok(ratio_), <<"1",".","5">>}],
      [command |-> CmdCopy,
       tokens |-> {<<"a">>, <<"b">>, db_, migrate_, LongTok(bogus_)}],
      [command |-> CmdSum,
       tokens |-> {<<"1">>, <<"2","0">>, <<"x">>, ShortTok("v"), EqTok(verbose_, <<"o","n">>)}],
      [command |-> CmdApp,
       tokens |-> {db_, migrate_, up_, greet_, LongTok(verbose_)}],
      [command |-> CmdMove,
       tokens |-> {<<"a">>, <<"b">>, <<"1",".","5">>, LongTok(bogus_), ShortTok("z")}],
      [command |-> CmdPack,
       tokens |-> {<<"a">>, <<"b">>, Ada, LongTok(bogus_), ShortTok("z")}] }

\* the lists of at most n elements of S
SeqsUpTo(S, n) == UNION {[1..k -> S] : k \in 0..n}

-----------------------------------------------------------------------------
(* Parser(root).parse(args), called directly *)

Init ==
    /\ \E sc \in Scenarios :
         /\ root = sc.command
         /\ args \in SeqsUpTo(sc.tokens, MaxLen)
    /\ hooks = [before |-> <<>>, after |-> <<>>, error |-> <<>>]
    /\ pc = "start"
    /\ ps = NoParse
    /\ hk = 0
    /\ result = PyNone
    /\ raised = PyNone
    /\ status = PyNone
    /\ log = <<>>

\* where a parse stands once ps is its state
ParsePc(P) == IF P.exc # PyNone THEN "raised" ELSE IF P.frames = <<>> THEN "parsed" ELSE "parse"

Advance(P) ==
    /\ ps' = P
    /\ pc' = ParsePc(P)
    /\ UNCHANGED <<root, hooks, args, hk, result, raised, status, log>>

\* parser = Parser(root); parser.parse(args)
ParseCall ==
    /\ pc = "start"
    /\ Advance(Call(NoParse, root, args, 0))

ParseLong ==
    /\ pc = "parse" /\ InLoop(ps) /\ IsLong(Cur(ps))
    /\ Advance(Step(ps))

ParseShort ==
    /\ pc = "parse" /\ InLoop(ps) /\ IsShort(Cur(ps))
    /\ Advance(Step(ps))

ParseDelegate ==
    /\ pc = "parse" /\ InLoop(ps) /\ ~IsLong(Cur(ps)) /\ ~IsShort(Cur(ps))
    /\ Cur(ps) \in DOMAIN Top(ps).command.subcommands
    /\ Advance(Step(ps))

ParsePositional ==
    /\ pc = "parse" /\ InLoop(ps) /\ ~IsLong(Cur(ps)) /\ ~IsShort(Cur(ps))
    /\ Cur(ps) \notin DOMAIN Top(ps).command.subcommands
    /\ Advance(Step(ps))

ParseFinish ==
    /\ pc = "parse" /\ ps.ret = 0 /\ ~InLoop(ps)
    /\ Advance(Step(ps))

ParseReturn ==
    /\ pc = "parse" /\ ps.ret # 0
    /\ Advance(Step(ps))

Next ==
    \/ ParseCall
    \/ ParseLong
    \/ ParseShort
    \/ ParseDelegate
    \/ ParsePositional
    \/ ParseFinish
    \/ ParseReturn

Spec == Init /\ [][Next]_vars

-----------------------------------------------------------------------------
(* CLI: registration of hooks, and run *)

\* CLI("myapp").root after the example's registrations: greet (with its two
\* options) and the group db; the root's handler is CLI._default_handler
CmdCli ==
    Command(<<"m","y","a","p","p">>, Fn("_default_handler"), <<>>, <<>>,
            [k \in {greet_, db_} |-> IF k = greet_ THEN CmdGreet ELSE CmdDb])

HelpFlags == {<<"-","h">>, LongTok(<<"h","e","l","p">>)}
VersionFlags == {<<"-","v">>, LongTok(<<"v","e","r","s","i","o","n">>)}

\* the tokens the token lists given to run are made of
RunTokens ==
    { {greet_, LongTok(count_), <<"3">>},
      {greet_, LongTok(name_), <<"x">>},
      {greet_, <<"-","h">>, LongTok(<<"v","e","r","s","i","o","n">>)},
      {db_, migrate_, LongTok(<<"h","e","l","p">>)} }

\* what a handler registered by the application may return
HandlerReturns == {PyInt(3), PyNone, PyStr(<<"o","k">>)}

\* an exception (of a subclass of Exception) raised by a handler or a hook
Raised(by) == [t |-> "raise", cls |-> "Exception", by |-> by]

\* the NameError the evaluation of an undefined global name raises
NameError(name) == [t |-> "raise", cls |-> "NameError", name |-> name]

RunInit ==
    /\ root = CmdCli
    /\ hooks = [before |-> <<>>, after |-> <<>>, error |-> <<>>]
    /\ args = <<>>
    /\ pc = "setup"
    /\ ps = NoParse
    /\ hk = 0
    /\ result = PyNone
    /\ raised = PyNone
    /\ status = PyNone
    /\ log = <<>>

Registered == Len(hooks.before) + Len(hooks.after) + Len(hooks.error)

\* CLI.add_hook(event, handler): handler is the next callable, known by its number
AddHook(event) ==
    /\ pc = "setup"
    /\ Registered < MaxHooks
    /\ hooks' = IF event \in DOMAIN hooks
                THEN [hooks EXCEPT ![event] = Append(@, Registered + 1)]
                ELSE hooks
    /\ UNCHANGED <<root, args, pc, ps, hk, result, raised, status, log>>

\* CLI._find_command_for_handler(fn): the first child of the root, in the
\* order of registration, whose handler is fn, or None
FindCommandForHandler(fn) ==
    LET order == <<greet_, db_>>
        hits == SelectSeq(order, LAMBDA n : n \in DOMAIN root.subcommands
                                            /\ root.subcommands[n].handler = fn)
    IN  IF hits = <<>> THEN PyNone ELSE root.subcommands[hits[1]]

\* the functions a decorator of the CLI may be applied to
Functions == {Fn("greet"), Fn("db_migrate"), Fn("helper")}

\* CLI.argument(name, type, required, help, nargs)(fn), lines 169-175: when fn
\* is the handler of a child of the root, the Argument(...) call of line 173
\* evaluates the undefined name rue and the NameError leaves the decorator
\* before anything is appended; otherwise fn is returned and nothing changes
CliArgument(fn, name, type, required, nargs) ==
    /\ pc = "setup"
    /\ IF FindCommandForHandler(fn) # PyNone
       THEN /\ status' = NameError("rue")
            /\ pc' = "crashed"
            /\ log' = Append(log, [ev |-> "argument", hook |-> 0,
                                   with |-> [fn |-> fn, name |-> name, type |-> type,
                                             required |-> required, nargs |-> nargs]])
       ELSE UNCHANGED <<status, pc, log>>
    /\ UNCHANGED <<root, hooks, args, ps, hk, result, raised>>

\* CLI.run(tokens), line 188
Run(tokens) ==
    /\ pc = "setup"
    /\ args' = tokens
    /\ pc' = "before"
    /\ hk' = 1
    /\ UNCHANGED <<root, hooks, ps, result, raised, status, log>>

\* isinstance(x, int): bool is a subclass of int
IsInstanceInt(x) == x.t \in {"int", "bool"}

\* the hooks of the event taken from the last registered to the first
Fired_Reversed(event, with) ==
    Append(log, [ev |-> event, hook |-> hooks[event][Len(hooks[event]) + 1 - hk], with |-> with])

\* for hook in self.hooks[event]: hook(...), the call of the hk-th hook
Fired(event, with) == Append(log, [ev |-> event, hook |-> hooks[event][hk], with |-> with])

\* hook(args[1:]): the token list without its first token
BeforeHook_Tail(raises) ==
    /\ pc = "before"
    /\ hk <= Len(hooks.before)
    /\ log' = Fired("before", IF args = <<>> THEN args ELSE Tail(args))
    /\ IF raises
       THEN /\ status' = Raised("before")
            /\ pc' = "escaped"
            /\ hk' = hk
       ELSE /\ hk' = hk + 1
            /\ UNCHANGED <<status, pc>>
    /\ UNCHANGED <<root, hooks, args, ps, result, raised>>

\* lines 190-191: the next before hook returns, or raises outside the try
BeforeHook(raises) ==
    /\ pc = "before"
    /\ hk <= Len(hooks.before)
    /\ log' = Fired("before", args)
    /\ IF raises
       THEN /\ status' = Raised("before")
            /\ pc' = "escaped"
            /\ hk' = hk
       ELSE /\ hk' = hk + 1
            /\ UNCHANGED <<status, pc>>
    /\ UNCHANGED <<root, hooks, args, ps, result, raised>>

BeforeDone == pc = "before" /\ hk > Len(hooks.before)

\* args[0] in ("-h", "--help"), without the test of the empty list
WantsHelp_FlagOnly == IF args = <<>> THEN FALSE ELSE args[1] \in HelpFlags

\* a help flag looked for in the whole list, not in args[0] alone
WantsHelp_Anywhere ==
    IF args = <<>> THEN TRUE ELSE \E p \in 1..Len(args) : args[p] \in HelpFlags

\* not args or args[0] in ("-h", "--help")
WantsHelp == IF args = <<>> THEN TRUE ELSE args[1] \in HelpFlags

\* args[0] in ("-v", "--version")
WantsVersion == IF args = <<>> THEN FALSE ELSE args[1] \in VersionFlags

\* lines 194-199: help or version
RunHelp ==
    /\ BeforeDone
    /\ IF WantsHelp THEN TRUE ELSE WantsVersion
    /\ log' = Append(log, [ev |-> IF WantsHelp THEN "help" ELSE "version",
                           hook |-> 0, with |-> PyNone])
    /\ status' = PyInt(0)
    /\ pc' = "returned"
    /\ UNCHANGED <<root, hooks, args, ps, hk, result, raised>>

\* the parse, with the resolved Command kept as the CLI's root
RunParse_Rebinds ==
    /\ BeforeDone
    /\ ~WantsHelp
    /\ ~WantsVersion
    /\ ps' = Parse(root, args)
    /\ log' = Append(log, [ev |-> "parse", hook |-> 0, with |-> PyNone])
    /\ IF ps'.exc # PyNone
       THEN /\ raised' = ps'.exc
            /\ pc' = "except"
            /\ hk' = 1
            /\ root' = root
       ELSE /\ pc' = "handler"
            /\ root' = ps'.heap[ps'.ret].command
            /\ UNCHANGED <<raised, hk>>
    /\ UNCHANGED <<hooks, args, result, status>>

\* lines 201-202: parser = Parser(self.root); ctx = parser.parse(args)
RunParse ==
    /\ BeforeDone
    /\ ~WantsHelp
    /\ ~WantsVersion
    /\ ps' = Parse(root, args)
    /\ log' = Append(log, [ev |-> "parse", hook |-> 0, with |-> PyNone])
    /\ IF ps'.exc # PyNone
       THEN /\ raised' = ps'.exc
            /\ pc' = "except"
            /\ hk' = 1
       ELSE /\ pc' = "handler"
            /\ UNCHANGED <<raised, hk>>
    /\ UNCHANGED <<root, hooks, args, result, status>>

\* the Context parse returned
Ctx == ps.heap[ps.ret]

\* _default_handler returning what print_help returns, None
HandlerOutcomes_DefaultReturnsNone(handler) ==
    IF handler = Fn("_default_handler") THEN {PyNone}
    ELSE IF handler = Fn("group") THEN {PyInt(0)}
    ELSE HandlerReturns \cup {Raised("handler")}

\* what calling a handler may do: CLI._default_handler and a Group's lambda
\* return 0, a registered function returns a value or raises
HandlerOutcomes(handler) ==
    IF handler \in {Fn("_default_handler"), Fn("group")} THEN {PyInt(0)}
    ELSE HandlerReturns \cup {Raised("handler")}

\* lines 204-205: result = ctx.command.handler(ctx)
RunHandler(outcome) ==
    /\ pc = "handler"
    /\ Ctx.command # PyNone /\ Ctx.command.handler # PyNone
    /\ outcome \in HandlerOutcomes(Ctx.command.handler)
    /\ log' = Append(log, [ev |-> "handler", hook |-> 0, with |-> ps.ret])
    /\ IF IsRaise(outcome)
       THEN /\ raised' = outcome
            /\ pc' = "except"
            /\ UNCHANGED result
       ELSE /\ result' = outcome
            /\ pc' = "after"
            /\ UNCHANGED raised
    /\ hk' = 1
    /\ UNCHANGED <<root, hooks, args, ps, status>>

\* hook(ctx, result if isinstance(result, int) else 0): the exit code, not the
\* handler's value
AfterHook_ExitCode(raises) ==
    /\ pc = "after"
    /\ hk <= Len(hooks.after)
    /\ log' = Fired("after", <<ps.ret, IF IsInstanceInt(result) THEN result ELSE PyInt(0)>>)
    /\ IF raises
       THEN /\ raised' = Raised("after")
            /\ pc' = "except"
            /\ hk' = 1
       ELSE /\ hk' = hk + 1
            /\ UNCHANGED <<raised, pc>>
    /\ UNCHANGED <<root, hooks, args, ps, result, status>>

\* lines 207-208: the next after hook returns, or raises inside the try
AfterHook(raises) ==
    /\ pc = "after"
    /\ hk <= Len(hooks.after)
    /\ log' = Fired("after", <<ps.ret, result>>)
    /\ IF raises
       THEN /\ raised' = Raised("after")
            /\ pc' = "except"
            /\ hk' = 1
       ELSE /\ hk' = hk + 1
            /\ UNCHANGED <<raised, pc>>
    /\ UNCHANGED <<root, hooks, args, ps, result, status>>

\* return result, whatever it is
RunReturn_Raw ==
    /\ pc = "after"
    /\ hk > Len(hooks.after)
    /\ status' = result
    /\ pc' = "returned"
    /\ UNCHANGED <<root, hooks, args, ps, hk, result, raised, log>>

\* line 210: return result if isinstance(result, int) else 0
RunReturn ==
    /\ pc = "after"
    /\ hk > Len(hooks.after)
    /\ status' = IF IsInstanceInt(result) THEN result ELSE PyInt(0)
    /\ pc' = "returned"
    /\ UNCHANGED <<root, hooks, args, ps, hk, result, raised, log>>

\* lines 212-213: the next error hook returns, or raises inside the except clause
ErrorHook(raises) ==
    /\ pc = "except"
    /\ hk <= Len(hooks.error)
    /\ log' = Fired("error", raised)
    /\ IF raises
       THEN /\ status' = Raised("error")
            /\ pc' = "escaped"
            /\ hk' = hk
       ELSE /\ hk' = hk + 1
            /\ UNCHANGED <<status, pc>>
    /\ UNCHANGED <<root, hooks, args, ps, result, raised>>

\* lines 214-215: print the message, return 1
RunFail ==
    /\ pc = "except"
    /\ hk > Len(hooks.error)
    /\ status' = PyInt(1)
    /\ pc' = "returned"
    /\ UNCHANGED <<root, hooks, args, ps, hk, result, raised, log>>

\* run is over (it returned or raised to its caller) and the caller goes on:
\* the CLI keeps its tree and its hooks, what belonged to the call is gone
RunAgain ==
    /\ pc \in {"returned", "escaped"}
    /\ pc' = "setup"
    /\ ps' = NoParse
    /\ hk' = 0
    /\ result' = PyNone
    /\ raised' = PyNone
    /\ status' = PyNone
    /\ log' = <<>>
    /\ args' = <<>>
    /\ UNCHANGED <<root, hooks>>

RunNext ==
    \/ \E event \in {"before", "after", "error", "exit"} : AddHook(event)
    \/ \E fn \in Functions, nargs \in {"", "*"} :
         CliArgument(fn, src_, "str", TRUE, nargs)
    \/ \E T \in RunTokens : \E tokens \in SeqsUpTo(T, MaxRunLen) : Run(tokens)
    \/ \E raises \in BOOLEAN : BeforeHook(raises)
    \/ RunHelp
    \/ RunParse
    \/ \E outcome \in HandlerReturns \cup {PyInt(0), Raised("handler")} : RunHandler(outcome)
    \/ \E raises \in BOOLEAN : AfterHook(raises)
    \/ RunReturn
    \/ \E raises \in BOOLEAN : ErrorHook(raises)
    \/ RunFail
    \/ RunAgain

RunSpec == RunInit /\ [][RunNext]_vars

-----------------------------------------------------------------------------
(* What a parse produced *)

\* the Context parse returned
Returned(P) == P.heap[P.ret]

RECURSIVE Chain(_, _)
\* the Contexts from Context id up its parent links
Chain(heap, id) ==
    IF id = 0 THEN <<>>
    ELSE <<[command |-> heap[id].command, options |-> heap[id].options,
            arguments |-> heap[id].arguments]>> \o Chain(heap, heap[id].parent)

\* the outcome of a finished parse: the exception, or the returned Context
\* with its ancestors
Outcome(P) == IF P.exc # PyNone THEN [exc |-> P.exc]
              ELSE [contexts |-> Chain(P.heap, P.ret)]

Variadic(arg_def) == arg_def.nargs \in {"*", "+"}

\* the parse of args is over
Done == pc \in {"parsed", "raised"}

\* the key of a long option token
LongKey(arg) == DropFirst(arg, 2)

\* "--key", with no "=" in it
IsLongNoEq(arg) == IsLong(arg) /\ ~Contains(LongKey(arg), "=")

\* tokens with "--key", "value" at p, p + 1 written "--key=value"
Merge(tokens, p) ==
    SubSeq(tokens, 1, p - 1) \o <<tokens[p] \o <<"=">> \o tokens[p + 1]>>
        \o SubSeq(tokens, p + 2, Len(tokens))

\* tokens without the two at p, p + 1
Remove2(tokens, p) == SubSeq(tokens, 1, p - 1) \o SubSeq(tokens, p + 2, Len(tokens))

\* the Command of the call whose loop had token e.pos at its cursor
CommandAt(P, e) == P.heap[e.ctx].command

\* the Command's last Argument is its only variadic one
LastVariadic(command) ==
    /\ command.arguments # <<>>
    /\ \A k \in 1..Len(command.arguments) :
          Variadic(command.arguments[k]) <=> k = Len(command.arguments)

\* the tokens that reached the last Argument of Context id's Command: the
\* bare tokens, not subcommand names, at the cursor of that call after the
\* ones the Arguments before it took
Reached(P, tokens, id) ==
    LET command == P.heap[id].command
        k == Len(command.arguments) - 1
        Test(e) == /\ e.ctx = id
                   /\ IsBare(tokens[e.pos])
                   /\ tokens[e.pos] \notin DOMAIN command.subcommands
        at == SelectSeq(P.scanned, Test)
    IN  [j \in 1..(Len(at) - k) |-> tokens[at[j + k].pos]]

\* the tokens of every scenario
AllTokens == UNION {sc.tokens : sc \in Scenarios}

\* values of a type, to encode as tokens
SampleValues(typ) ==
    CASE typ = "str" -> {PyStr(tok) : tok \in AllTokens}
      [] typ = "int" -> {PyInt(n) : n \in (0 - 25)..25}
      [] typ = "bool" -> {PyBool(b) : b \in BOOLEAN}
      [] typ = "float" -> {PyFloat(m, k) : m \in (0 - 25)..25, k \in {0}}
                            \cup {PyFloat(m, k) : m \in {n \in (0 - 25)..25 : n % 10 # 0}, k \in {1}}

\* tokens is "--name", str(value) for some of the command's Options, each once
IsEncoding(command, tokens) ==
    /\ Len(tokens) % 2 = 0
    /\ \A j \in 1..(Len(tokens) \div 2) :
          /\ IsLongNoEq(tokens[2 * j - 1])
          /\ FindOption(command, LongKey(tokens[2 * j - 1])) # PyNone
          /\ \E x \in SampleValues(FindOption(command, LongKey(tokens[2 * j - 1])).type) :
                StrOf(x) = tokens[2 * j]
          /\ \A h \in 1..(Len(tokens) \div 2) : tokens[2 * h - 1] = tokens[2 * j - 1] => h = j

-----------------------------------------------------------------------------
(* Claims *)

\* C1: parsing the empty token list returns a Context in which every declared
\* Option has its declared default and every declared non-variadic Argument
\* has its declared default.
C1_EmptyDefaults ==
    (args = <<>> /\ pc \notin {"start", "parse"}) =>
        /\ pc = "parsed"
        /\ \A k \in 1..Len(root.options) :
              /\ root.options[k].name \in DOMAIN Returned(ps).options
              /\ Returned(ps).options[root.options[k].name] = root.options[k].default
        /\ \A k \in 1..Len(root.arguments) :
              ~Variadic(root.arguments[k]) =>
                 /\ root.arguments[k].name \in DOMAIN Returned(ps).arguments
                 /\ Returned(ps).arguments[root.arguments[k].name] = root.arguments[k].default

\* an empty token list parsed by a Command with an Option and a scalar Argument
C1_Witness ==
    /\ pc = "parsed" /\ args = <<>>
    /\ root.options # <<>>
    /\ \E k \in 1..Len(root.arguments) : ~Variadic(root.arguments[k])

\* C3: a bare token at the cursor that names a subcommand of the running
\* call's Command starts the subcommand's parse on the tokens after it, and
\* binds nothing in the running call: its Context, its positional index and
\* its collected values stay as they were, whatever Arguments are unfilled.
C3_SubcommandWins ==
    [][ (/\ pc = "parse" /\ InLoop(ps) /\ IsBare(Cur(ps))
         /\ Cur(ps) \in DOMAIN Top(ps).command.subcommands)
        => (/\ ps'.exc = PyNone
            /\ Len(ps'.frames) = Len(ps.frames) + 1
            /\ Top(ps').command = Top(ps).command.subcommands[Cur(ps)]
            /\ Top(ps').args = DropFirst(Top(ps).args, Top(ps).i + 1)
            /\ Top(ps').i = 0
            /\ ps'.frames[Len(ps.frames)] = Top(ps)
            /\ ps'.heap[Top(ps).ctx] = ps.heap[Top(ps).ctx]) ]_vars

\* a call suspended at a subcommand token with a positional Argument unfilled
C3_Witness ==
    /\ pc = "parse" /\ Len(ps.frames) = 2 /\ ps.ret = 0
    /\ ps.frames[1].arg_idx < Len(ps.frames[1].command.arguments)
    /\ ps.frames[1].args[ps.frames[1].i + 1] \in DOMAIN ps.frames[1].command.subcommands
    /\ ps.frames[2].i = 0

\* C4: after a token list made of subcommand names only, the returned Context
\* is the one of the deepest Command, and each Context's parent is the Context
\* of the call that delegated to it, up to the root's, whose parent is None.
C4_ParentChain ==
    (pc = "parsed" /\ Len(ps.heap) = Len(args) + 1) =>
        /\ ps.ret = Len(ps.heap)
        /\ \A k \in 1..Len(ps.heap) : ps.heap[k].parent = k - 1

\* C2 as stated: wherever the tokens "--o", v stand in the token list, o an
\* Option of the Command, writing them "--o=v" leaves the Context the parse
\* returns unchanged.
C2_AnyContext ==
    pc = "parsed" =>
      \A p \in 1..(Len(args) - 1) :
        (IsLongNoEq(args[p]) /\ FindOption(root, LongKey(args[p])) # PyNone)
          => Outcome(Parse(root, Merge(args, p))) = Outcome(ps)

\* C2 amended: when the token "--o" is at the cursor of a parser whose Command
\* declares o (it is not taken as the value of the option before it) and a
\* token v follows, writing the two "--o=v" leaves the outcome unchanged.
C2_ReachedOption ==
    Done =>
      \A j \in 1..Len(ps.scanned) :
        LET p == ps.scanned[j].pos IN
        (/\ p < Len(args)
         /\ IsLongNoEq(args[p])
         /\ FindOption(CommandAt(ps, ps.scanned[j]), LongKey(args[p])) # PyNone)
          => Outcome(Parse(root, Merge(args, p))) = Outcome(ps)

\* a declared long option with its value, parsed after another token and
\* before another one
C2_Witness ==
    /\ pc = "parsed"
    /\ \E j \in 2..Len(ps.scanned) :
         LET p == ps.scanned[j].pos IN
         /\ p + 1 < Len(args)
         /\ IsLongNoEq(args[p])
         /\ FindOption(CommandAt(ps, ps.scanned[j]), LongKey(args[p])) # PyNone
         /\ Returned(ps).options[LongKey(args[p])] = PyStr(args[p + 1])

\* C6 as stated: wherever the tokens "--bogus", value stand in the token list,
\* bogus no Option of the Command, the parse raises nothing and its outcome is
\* that of the token list without the two.
C6_AnyContext ==
    Done =>
      \A p \in 1..(Len(args) - 1) :
        (IsLongNoEq(args[p]) /\ FindOption(root, LongKey(args[p])) = PyNone)
          => /\ ps.exc = PyNone
             /\ Outcome(Parse(root, Remove2(args, p))) = Outcome(ps)

\* C6 amended: when the token "--bogus" is at the cursor of a parser whose
\* Command declares no Option bogus (it is not taken as the value of the
\* option before it) and a token follows, the two raise nothing and the
\* outcome of the parse is that of the token list without them.
C6_ReachedUnknown ==
    Done =>
      \A j \in 1..Len(ps.scanned) :
        LET p == ps.scanned[j].pos IN
        (/\ p < Len(args)
         /\ IsLongNoEq(args[p])
         /\ FindOption(CommandAt(ps, ps.scanned[j]), LongKey(args[p])) = PyNone)
          => /\ ps.exc # PyNone => ps.scanned[Len(ps.scanned)].pos # p
             /\ Outcome(Parse(root, Remove2(args, p))) = Outcome(ps)

\* an unknown long option and its value dropped between two bound positionals
C6_Witness ==
    /\ pc = "parsed"
    /\ \E j \in 2..Len(ps.scanned) :
         LET p == ps.scanned[j].pos IN
         /\ p + 1 < Len(args)
         /\ IsLongNoEq(args[p])
         /\ FindOption(CommandAt(ps, ps.scanned[j]), LongKey(args[p])) = PyNone
         /\ IsBare(args[p + 1])
    /\ \E a \in DOMAIN Returned(ps).arguments : Returned(ps).arguments[a].t = "list"

\* the value of the last Argument of Context id: the tokens that reached it,
\* coerced, in their order
HoldsReached(P, tokens, id) ==
    LET command == P.heap[id].command
        last == command.arguments[Len(command.arguments)]
        got == Reached(P, tokens, id)
    IN  (LastVariadic(command) /\ got # <<>>) =>
          /\ last.name \in DOMAIN P.heap[id].arguments
          /\ P.heap[id].arguments[last.name] =
               PyList([j \in 1..Len(got) |-> Convert(PyStr(got[j]), last.type)])

\* C7 as stated: in every Context of a parse whose Command's last Argument is
\* variadic, that Argument holds the tokens that reached it.
C7_EveryLevel ==
    pc = "parsed" => \A id \in 1..Len(ps.heap) : HoldsReached(ps, args, id)

\* C7 amended: in the Context a parse returns (the call that ran to the end
\* of its tokens), a variadic last Argument holds exactly the tokens that
\* reached it, coerced, in input order.
C7_ReturnedLevel ==
    pc = "parsed" => HoldsReached(ps, args, ps.ret)

\* two different tokens collected by a variadic last Argument
C7_Witness ==
    /\ pc = "parsed"
    /\ LastVariadic(Returned(ps).command)
    /\ Len(Reached(ps, args, ps.ret)) >= 2
    /\ Reached(ps, args, ps.ret)[1] # Reached(ps, args, ps.ret)[2]

\* C8: a token list that encodes values of the Command's Options as
\* "--name", str(value) parses to a Context whose options are those values
\* (and the defaults of the Options left out).
C8_RoundTrip ==
    (Done /\ IsEncoding(root, args)) =>
        /\ pc = "parsed"
        /\ \A j \in 1..(Len(args) \div 2) :
             \A x \in SampleValues(FindOption(root, LongKey(args[2 * j - 1])).type) :
               StrOf(x) = args[2 * j] => Returned(ps).options[LongKey(args[2 * j - 1])] = x
        /\ \A k \in 1..Len(root.options) :
             (\A j \in 1..(Len(args) \div 2) : LongKey(args[2 * j - 1]) # root.options[k].name)
               => Returned(ps).options[root.options[k].name] = root.options[k].default

\* a bool and a float option encoded and parsed back
C8_Witness ==
    /\ pc = "parsed" /\ IsEncoding(root, args) /\ Len(args) = 4
    /\ \E n \in DOMAIN Returned(ps).options : Returned(ps).options[n] = PyBool(TRUE)
    /\ \E n \in DOMAIN Returned(ps).options : Returned(ps).options[n].t = "float"

-----------------------------------------------------------------------------
(* Claims about CLI.run *)

\* run is over: it returned, or an exception escaped it
RunOver == pc \in {"returned", "escaped"}

\* the calls of a Command's handler
Handled == {j \in 1..Len(log) : log[j].ev = "handler"}

\* the key of a long option token, before any "="
KeyOf(arg) == IF Contains(LongKey(arg), "=") THEN SplitOnce(LongKey(arg), "=")[1] ELSE LongKey(arg)

\* the turns of Context id's loop whose token names the Option opt
Occurrences(P, tokens, id, opt) ==
    {j \in 1..Len(P.scanned) :
        /\ P.scanned[j].ctx = id
        /\ \/ IsLong(tokens[P.scanned[j].pos])
              /\ FindOption(P.heap[id].command, KeyOf(tokens[P.scanned[j].pos])) = opt
           \/ IsShort(tokens[P.scanned[j].pos])
              /\ FindOptionShort(P.heap[id].command, tokens[P.scanned[j].pos][2]) = opt}

\* the children of the root
TopLevel == {root.subcommands[n] : n \in DOMAIN root.subcommands}

\* C5: when run resolves a top-level command, the command's handler is called
\* exactly once, with a Context in which each Option the parser was given as
\* "--name" and a value token (the last time it was given, if several) is the
\* value coerced to the Option's type, and each Option not given is its
\* default.
C5_HandlerSeesOptions ==
    /\ (RunOver /\ ps.ret # 0 /\ Returned(ps).command \in TopLevel)
         => /\ Cardinality(Handled) = 1
            /\ \A j \in Handled : log[j].with = ps.ret
    /\ \A j \in Handled :
         LET ctx == ps.heap[log[j].with] IN
         ctx.command \in TopLevel =>
           \A k \in 1..Len(ctx.command.options) :
             LET opt == ctx.command.options[k]
                 occ == Occurrences(ps, args, log[j].with, opt)
             IN  /\ occ = {} => ctx.options[opt.name] = opt.default
                 /\ \A h \in occ :
                      (/\ \A g \in occ : g <= h
                       /\ IsLongNoEq(args[ps.scanned[h].pos])
                       /\ ps.scanned[h].pos < Len(args))
                        => ctx.options[opt.name] =
                             Convert(PyStr(args[ps.scanned[h].pos + 1]), opt.type)

\* run(["greet", "--count", "3"]) returned: the handler saw count = 3 and the
\* default of name
C5_Witness ==
    /\ pc = "returned"
    /\ \E j \in Handled :
         /\ ps.heap[log[j].with].command \in TopLevel
         /\ ps.heap[log[j].with].options[count_] = PyInt(3)
         /\ ps.heap[log[j].with].options[name_] = PyStr(World)

\* C9: when the parse or the handler raises, run returns a non-zero status
\* and every registered error hook has been called exactly once, with that
\* exception; the exception does not escape run.
C9_ErrorsCaught ==
    (RunOver /\ raised # PyNone /\ raised # Raised("after")) =>
        /\ pc = "returned"
        /\ status.t = "int" /\ status.v # 0
        /\ \A k \in 1..Len(hooks.error) :
             Cardinality({j \in 1..Len(log) :
                 /\ log[j].ev = "error"
                 /\ log[j].hook = hooks.error[k]
                 /\ log[j].with = raised}) = 1

\* C10: when a hook raises (before, after or error), the error hooks are
\* fired and run returns a non-zero status; the exception does not escape run.
C10_HookFailuresCaught ==
    (/\ RunOver
     /\ \/ status \in {Raised("before"), Raised("error")}
        \/ raised = Raised("after"))
      => /\ pc = "returned"
         /\ status.t = "int" /\ status.v # 0
         /\ \A k \in 1..Len(hooks.error) :
              \E j \in 1..Len(log) : log[j].ev = "error" /\ log[j].hook = hooks.error[k]

\* the handler was called and returned a value
HandlerReturned == Handled # {} /\ raised # Raised("handler")

ShortCircuits == IF args = <<>> THEN TRUE ELSE args[1] \in HelpFlags \cup VersionFlags

\* the calls of the kinds evs that run has made
Calls(evs) == {j \in 1..Len(log) : log[j].ev \in evs}

IsCall(e, ev, hook, with) == e.ev = ev /\ e.hook = hook /\ e.with = with

\* the after hooks run has called, in order
AfterCalls == SelectSeq(log, LAMBDA e : e.ev = "after")

\* the calls of a run that resolved a command, up to the after hooks: every
\* before hook with the token list, the parse, the handler once with the
\* Context; then after hooks only, in the order of registration, each with the
\* Context and the handler's value; none when the handler raised
Lifecycle ==
    LET nb == Len(hooks.before) IN
    /\ Len(log) >= nb + 2
    /\ \A k \in 1..nb : IsCall(log[k], "before", hooks.before[k], args)
    /\ log[nb + 1].ev = "parse"
    /\ IsCall(log[nb + 2], "handler", 0, ps.ret)
    /\ Cardinality(Calls({"handler"})) = 1
    /\ Cardinality(Calls({"parse"})) = 1
    /\ Len(AfterCalls) <= Len(hooks.after)
    /\ \A k \in 1..Len(AfterCalls) :
         IsCall(log[nb + 2 + k], "after", hooks.after[k], <<ps.ret, result>>)
    /\ ~HandlerReturned => AfterCalls = <<>>

\* C13 as stated: in a run that resolved a command the calls are, in order,
\* all before hooks, the parse, the handler once with the Context, and, when
\* the handler returned, each after hook once with the Context and the
\* handler's value.
C13_Lifecycle ==
    (RunOver /\ ps.ret # 0) =>
        /\ Lifecycle
        /\ HandlerReturned => Len(AfterCalls) = Len(hooks.after)

\* C13 amended: the same, with the after hooks called up to the first one that
\* raises: all of them when none raises, and none after the one that raised.
C13_LifecycleToFirstRaise ==
    (RunOver /\ ps.ret # 0) =>
        /\ Lifecycle
        /\ (HandlerReturned /\ raised = PyNone) => Len(AfterCalls) = Len(hooks.after)
        /\ raised = Raised("after") => Len(AfterCalls) >= 1

\* a run with a before and an after hook whose handler returned None
C13_Witness ==
    /\ pc = "returned" /\ ps.ret # 0
    /\ hooks.before # <<>> /\ hooks.after # <<>>
    /\ HandlerReturned /\ raised = PyNone /\ result = PyNone
    /\ Len(AfterCalls) = Len(hooks.after)

\* the hooks run has called for the event, in the order of the calls
HookCalls(event) ==
    LET calls == SelectSeq(log, LAMBDA e : e.ev = event)
    IN  [k \in 1..Len(calls) |-> calls[k].hook]

\* C14: at every point of a run, the hooks called so far for an event are the
\* first hooks registered for it, in the order of registration, each once.
C14_RegistrationOrder ==
    \A event \in {"before", "after", "error"} :
        /\ Len(HookCalls(event)) <= Len(hooks[event])
        /\ HookCalls(event) = SubSeq(hooks[event], 1, Len(HookCalls(event)))

\* two hooks registered for the same event, both called in a run
C14_Witness ==
    /\ pc = "returned"
    /\ \E event \in {"before", "after", "error"} :
         Len(hooks[event]) = 2 /\ Len(HookCalls(event)) = 2

RECURSIVE ChainIds(_, _)
\* Context id and the Contexts up its parent links
ChainIds(heap, id) == IF id = 0 THEN {} ELSE {id} \cup ChainIds(heap, heap[id].parent)

\* Context id has an entry for every Option of its Command, the default for
\* an Option no token of its level named
Populated(P, tokens, id) ==
    \A k \in 1..Len(P.heap[id].command.options) :
        LET opt == P.heap[id].command.options[k] IN
        /\ opt.name \in DOMAIN P.heap[id].options
        /\ Occurrences(P, tokens, id, opt) = {} => P.heap[id].options[opt.name] = opt.default

\* C15: after a parse, the returned Context and every Context up its parent
\* links has an entry for every Option declared on its Command, the default
\* for an Option that was not set.
C15_FullyPopulated ==
    pc = "parsed" => \A id \in ChainIds(ps.heap, ps.ret) : Populated(ps, args, id)

\* the value the option token at position p supplies: what follows "=", or
\* the next token, or None at the end of the list
SuppliedValue(tokens, p) ==
    IF IsLong(tokens[p]) /\ Contains(LongKey(tokens[p]), "=")
    THEN PyStr(SplitOnce(LongKey(tokens[p]), "=")[2])
    ELSE IF p < Len(tokens) THEN PyStr(tokens[p + 1]) ELSE PyNone

\* the turns of Context id's loop whose token names the Option opt, in order
OccurrenceSeq(P, tokens, id, opt) ==
    LET all == [j \in 1..Len(P.scanned) |-> [at |-> j, e |-> P.scanned[j]]]
    IN  SelectSeq(all, LAMBDA x : x.at \in Occurrences(P, tokens, id, opt))

\* C16: an Option declared with multiple set and given more than once holds,
\* in the returned Context, the list of all the values supplied, coerced, in
\* the order of the tokens.
C16_MultipleAccumulates ==
    pc = "parsed" =>
      \A k \in 1..Len(Returned(ps).command.options) :
        LET opt == Returned(ps).command.options[k]
            occ == OccurrenceSeq(ps, args, ps.ret, opt)
        IN  (/\ opt.multiple /\ Len(occ) >= 2
             /\ \A j \in 1..Len(occ) : SuppliedValue(args, occ[j].e.pos) # PyNone) =>
               Returned(ps).options[opt.name] =
                 PyList([j \in 1..Len(occ) |->
                           Convert(SuppliedValue(args, occ[j].e.pos), opt.type)])

\* the calls of CLI.argument's decorator on the handler of a child of the root
ArgumentCalls ==
    {j \in 1..Len(log) : IF log[j].ev = "argument"
                         THEN FindCommandForHandler(log[j].with.fn) # PyNone
                         ELSE FALSE}

\* C17: CLI.argument applied to the handler of a top-level command raises
\* nothing and leaves, as the last of the Command's Arguments, an Argument
\* with the name, type, required flag and nargs given.
C17_ArgumentAppended ==
    \A j \in ArgumentCalls :
        LET call == log[j].with
            arguments == FindCommandForHandler(call.fn).arguments
        IN  /\ pc # "crashed"
            /\ arguments # <<>>
            /\ arguments[Len(arguments)].name = call.name
            /\ arguments[Len(arguments)].type = call.type
            /\ arguments[Len(arguments)].required = call.required
            /\ arguments[Len(arguments)].nargs = call.nargs

\* C18: when the parse raised on a token that an int Option or Argument could
\* not coerce, there is no Context, the handler and the after hooks are not
\* called, every error hook is called and run returns a non-zero status.
C18_ConversionAborts ==
    (RunOver /\ ps.exc # PyNone) =>
        /\ ps.ret = 0
        /\ Calls({"handler", "after"}) = {}
        /\ Len(HookCalls("error")) = Len(hooks.error)
        /\ pc = "returned"
        /\ status.t = "int" /\ status.v # 0

\* C19: no step of a run, the parse included, changes the Command tree or the
\* lists of hooks, in the first run and in every later one; the outcome of
\* the parse is the one of the tree as registered on the run's tokens.
C19_TreeReadOnly ==
    [][ /\ (pc # "setup" \/ pc' = "before") => (root' = root /\ hooks' = hooks)
        /\ (pc = "before" /\ pc' \in {"handler", "except"})
             => ps' = Parse(CmdCli, args) ]_vars

\* a run that delegated to a subcommand, called its handler and its hooks and
\* returned, with the tree and the hooks as registered
C19_Witness ==
    /\ pc = "returned"
    /\ root = CmdCli
    /\ Len(ps.heap) >= 2 /\ Handled # {}
    /\ hooks.before # <<>> /\ Len(HookCalls("before")) = Len(hooks.before)

\* the bare tokens, not subcommand names, that Context id's loop had at its cursor
BareAt(P, tokens, id) ==
    SelectSeq(P.scanned, LAMBDA e : /\ e.ctx = id
                                    /\ IsBare(tokens[e.pos])
                                    /\ tokens[e.pos] \notin DOMAIN P.heap[id].command.subcommands)

\* the k-th Argument of the Command and those before it take one token each
Scalars(command, k) == \A j \in 1..k : ~Variadic(command.arguments[j])

\* C20: a parse raises only on a token it could not coerce, never for a
\* required Option or Argument that no token gave; in the Context it returns
\* such an Option or Argument is its default, and run calls the handler.
C20_RequiredNotEnforced ==
    /\ ps.exc # PyNone =>
         \E p \in 1..Len(args), typ \in {"int", "float"} :
            ps.exc = Convert(PyStr(args[p]), typ)
    /\ ps.ret # 0 =>
         LET ctx == Returned(ps) IN
         /\ \A k \in 1..Len(ctx.command.options) :
              LET opt == ctx.command.options[k] IN
              (opt.required /\ Occurrences(ps, args, ps.ret, opt) = {}) =>
                 /\ opt.name \in DOMAIN ctx.options
                 /\ ctx.options[opt.name] = opt.default
         /\ \A k \in 1..Len(ctx.command.arguments) :
              LET arg_def == ctx.command.arguments[k] IN
              (/\ arg_def.required /\ Scalars(ctx.command, k)
               /\ Len(BareAt(ps, args, ps.ret)) < k) =>
                 /\ arg_def.name \in DOMAIN ctx.arguments
                 /\ ctx.arguments[arg_def.name] = arg_def.default
         /\ RunOver => Cardinality(Handled) = 1

\* run(["greet"]) returned: the handler was called with the required Option
\* count at its default and the required Argument who at its default
C20_Witness ==
    /\ pc = "returned" /\ ps.ret # 0 /\ Handled # {}
    /\ Returned(ps).command = CmdGreet
    /\ Occurrences(ps, args, ps.ret, CmdGreet.options[2]) = {}
    /\ BareAt(ps, args, ps.ret) = <<>>
    /\ Returned(ps).options[count_] = PyInt(1)
    /\ Returned(ps).arguments[who_] = PyNone

\* the calls of before hooks are the first calls of a run, in the order of
\* registration, each with the token list as given to run
BeforeFirst ==
    \A k \in 1..Len(HookCalls("before")) : IsCall(log[k], "before", hooks.before[k], args)

\* the run is past its before hooks, or over
PastBefore == pc \in {"handler", "after", "except", "returned", "escaped"}

LongWithNext(P) ==
    /\ InLoop(P)
    /\ IsLongNoEq(Cur(P))
    /\ Top(P).i + 1 < Len(Top(P).args)

\* no turn of any loop has at its cursor the token behind a "--key" token
\* that a loop had at its cursor
ValuesSkipped(P, tokens) ==
    \A j, k \in 1..Len(P.scanned) :
        IsLongNoEq(tokens[P.scanned[j].pos]) => P.scanned[k].pos # P.scanned[j].pos + 1

\* C22: when the parser has a "--key" token (no "=") at its cursor and a token
\* follows it, the step takes that token as the option's value, for a declared
\* key and an undeclared one alike: the cursor moves past both, the value is
\* stored under a declared Option (or its coercion raises), and the token is
\* no subcommand call, no positional binding and never at the cursor itself.
C22_NextIsValue ==
    [][(pc = "parse" /\ LongWithNext(ps)) =>
         LET f == Top(ps)
             value == PyStr(f.args[f.i + 2])
             opt == FindOption(f.command, LongKey(Cur(ps)))
             old == ps.heap[f.ctx]
         IN  /\ ValuesSkipped(ps', args)
             /\ \/ /\ opt # PyNone
                   /\ IsRaise(Convert(value, opt.type))
                   /\ ps'.exc = Convert(value, opt.type)
                \/ /\ ps'.exc = PyNone
                   /\ ps'.frames = [ps.frames EXCEPT ![Len(ps.frames)].i = f.i + 2]
                   /\ Len(ps'.heap) = Len(ps.heap)
                   /\ ps'.heap[f.ctx].arguments = old.arguments
                   /\ ps'.heap[f.ctx].options =
                        IF opt # PyNone THEN DictSet(old.options, opt.name, Convert(value, opt.type))
                        ELSE old.options]_vars

\* a parse that had "--key" at its cursor with a subcommand's name behind it
\* and returned the Context of the same call: the name was taken as the value
C22_Witness ==
    /\ pc = "parsed"
    /\ ps.ret = 1
    /\ \E j \in 1..Len(ps.scanned) :
          LET e == ps.scanned[j] IN
          /\ IsLongNoEq(args[e.pos])
          /\ e.pos < Len(args)
          /\ args[e.pos + 1] \in DOMAIN CommandAt(ps, e).subcommands

\* the turns of Context id's loop that delegated: a bare token at the cursor
\* that names a subcommand
Delegations(P, tokens, id) ==
    {j \in 1..Len(P.scanned) :
        /\ P.scanned[j].ctx = id
        /\ IsBare(tokens[P.scanned[j].pos])
        /\ tokens[P.scanned[j].pos] \in DOMAIN P.heap[id].command.subcommands}

\* two Contexts alike in all but parent
SameButParent(c, d) ==
    /\ c.command = d.command
    /\ c.options = d.options
    /\ c.arguments = d.arguments

\* C23: for tokens pre ++ [s] ++ rest where s is the token at which the parse
\* of the root Command delegates to its child s, the parse ends as the child's
\* parse of rest alone ends: the same exception, or a returned Context alike
\* in all but parent; and the Context of the delegating call has the options
\* and arguments it has when nothing follows s.
C23_DelegationSplits ==
    Done => \A j \in Delegations(ps, args, 1) :
        LET p == ps.scanned[j].pos
            rest == SubSeq(args, p + 1, Len(args))
            child == Parse(root.subcommands[args[p]], rest)
            alone == Parse(root, SubSeq(args, 1, p))
        IN  /\ ps.exc = child.exc
            /\ ps.exc = PyNone => SameButParent(Returned(ps), Returned(child))
            /\ ps.heap[1].options = alone.heap[1].options
            /\ ps.heap[1].arguments = alone.heap[1].arguments

\* a parse that set something in the root call's Context, then delegated with
\* tokens left, one of which the child bound
C23_Witness ==
    /\ pc = "parsed"
    /\ \E j \in Delegations(ps, args, 1) :
          /\ 1 < ps.scanned[j].pos /\ ps.scanned[j].pos < Len(args)
          /\ ps.heap[1].options # EmptyDict \/ ps.heap[1].arguments # EmptyDict
    /\ \E a \in DOMAIN Returned(ps).arguments : Returned(ps).arguments[a] = PyStr(args[Len(args)])

\* tokens without the one at p
Remove1(tokens, p) == SubSeq(tokens, 1, p - 1) \o SubSeq(tokens, p + 1, Len(tokens))

\* the turns of a loop with a token "-X" at the cursor, X the short name of no
\* Option of the loop's Command
UnknownShorts(P, tokens) ==
    {j \in 1..Len(P.scanned) :
        /\ IsShort(tokens[P.scanned[j].pos])
        /\ FindOptionShort(CommandAt(P, P.scanned[j]), tokens[P.scanned[j].pos][2]) = PyNone}

\* C24: a token "-X" at the cursor of a parser whose Command has no Option
\* with short name X raises nothing and is the only token dropped: the parse
\* ends as the parse of the token list without that one token ends (the same
\* exception, or the same returned Context and ancestors), so the token
\* behind it is processed as if "-X" were not there.
C24_UnknownShortDropped ==
    Done => \A j \in UnknownShorts(ps, args) :
        LET p == ps.scanned[j].pos IN
        /\ ps.exc # PyNone => ps.scanned[Len(ps.scanned)].pos # p
        /\ Outcome(Parse(root, Remove1(args, p))) = Outcome(ps)

\* a parse that dropped an unknown "-X" and bound the bare token behind it
C24_Witness ==
    /\ pc = "parsed"
    /\ \E j \in UnknownShorts(ps, args) :
          LET p == ps.scanned[j].pos IN
          /\ p < Len(args)
          /\ IsBare(args[p + 1])
          /\ \E a \in DOMAIN Returned(ps).arguments :
                Returned(ps).arguments[a] = PyStr(args[p + 1])

\* the turns of the loops that had a bare token, no subcommand name, at the
\* cursor after every Argument of the Command had taken its token
Surplus(P, tokens) ==
    {j \in 1..Len(P.scanned) :
        LET e == P.scanned[j]
            command == CommandAt(P, e)
            before == SelectSeq(BareAt(P, tokens, e.ctx), LAMBDA d : d.pos < e.pos)
        IN  /\ IsBare(tokens[e.pos])
            /\ tokens[e.pos] \notin DOMAIN command.subcommands
            /\ Scalars(command, Len(command.arguments))
            /\ Len(before) >= Len(command.arguments)}

\* C25: in every Context of a finished parse, the k-th bare token of its level
\* that is no subcommand name is the value of the k-th declared Argument,
\* coerced to its type, as long as the Arguments up to the k-th take one token
\* each; and a bare token that comes when every declared Argument has its
\* token raises nothing and changes nothing: the parse ends as the parse of
\* the token list without it.
C25_BoundInOrder ==
    /\ pc = "parsed" =>
         \A id \in 1..Len(ps.heap) :
            LET ctx == ps.heap[id]
                bare == BareAt(ps, args, id)
            IN  \A k \in 1..Len(ctx.command.arguments) :
                   (k <= Len(bare) /\ Scalars(ctx.command, k)) =>
                      /\ ctx.command.arguments[k].name \in DOMAIN ctx.arguments
                      /\ ctx.arguments[ctx.command.arguments[k].name] =
                           Convert(PyStr(args[bare[k].pos]), ctx.command.arguments[k].type)
    /\ Done =>
         \A j \in Surplus(ps, args) :
            /\ ps.exc # PyNone => ps.scanned[Len(ps.scanned)].pos # ps.scanned[j].pos
            /\ Outcome(Parse(root, Remove1(args, ps.scanned[j].pos))) = Outcome(ps)

\* a parse that bound two Arguments of different types from its first two
\* bare tokens, with an option between them, and discarded a third
C25_Witness ==
    /\ pc = "parsed"
    /\ Len(Returned(ps).command.arguments) = 2
    /\ Surplus(ps, args) # {}
    /\ \E j \in 1..Len(ps.scanned) : ~IsBare(args[ps.scanned[j].pos])
    /\ Returned(ps).arguments[src_].t = "str"
    /\ Returned(ps).arguments[ratio_].t = "float"

\* C26: when the last Argument of the Command is its one variadic Argument
\* and no token reached it, "*" or "+" alike, the Context the parse returns
\* holds the Argument's declared default; a parse raises for a token it could
\* not coerce and for nothing else.
C26_VariadicDefault ==
    /\ pc = "parsed" =>
         LET ctx == Returned(ps)
             last == ctx.command.arguments[Len(ctx.command.arguments)]
         IN  (LastVariadic(ctx.command) /\ Reached(ps, args, ps.ret) = <<>>) =>
                /\ last.name \in DOMAIN ctx.arguments
                /\ ctx.arguments[last.name] = last.default
    /\ pc = "raised" =>
         \E p \in 1..Len(args), a \in {"int", "float"} :
            /\ IsRaise(Convert(PyStr(args[p]), a))
            /\ ps.exc = Convert(PyStr(args[p]), a)

\* a parse of option tokens only on a Command whose one Argument is "+"
C26_Witness ==
    /\ pc = "parsed"
    /\ args # <<>>
    /\ LastVariadic(Returned(ps).command)
    /\ Returned(ps).command.arguments[Len(Returned(ps).command.arguments)].nargs = "+"
    /\ Reached(ps, args, ps.ret) = <<>>
    /\ Returned(ps).options[verbose_] = PyBool(TRUE)

\* s is one of the words true, 1, yes, on, in any mix of upper and lower case
TruthyWord(s) ==
    \E w \in Truthy :
        /\ Len(s) = Len(w)
        /\ \A k \in 1..Len(w) :
              \/ s[k] = w[k]
              \/ \E n \in 1..Len(LowerOf) : LowerOf[n] = w[k] /\ Upper[n] = s[k]

\* value strings for a bool Option, beside the value tokens of the scenarios
BoolSamples ==
    { <<"t","r","u","e">>, <<"T","R","U","E">>, <<"T","r","u","E">>, <<"1">>,
      <<"y","e","s">>, <<"Y","e","s">>, <<"Y","E","S">>, <<"o","n">>, <<"O","N">>, <<"o","N">>,
      <<>>, <<"0">>, <<"n","o">>, <<"o","f","f">>, <<"f","a","l","s","e">>,
      <<"t","r","u">>, <<"t","r","u","e","e">>, <<" ","o","n">>, <<"1","1">>,
      <<"y">>, <<"t">>, <<"2">>, <<"o","n","e">>, <<"1",".","0">> }

\* the value token of the last token naming Option opt at Context id's level
LastSupplied(P, tokens, id, opt) ==
    LET occ == OccurrenceSeq(P, tokens, id, opt)
    IN  SuppliedValue(tokens, occ[Len(occ)].e.pos)

\* C27: coercing a value string to bool gives True exactly when the string is
\* true, 1, yes or on in any letter case, False for every other string, and
\* never raises: so for each of the sample strings (evaluated before the parse
\* starts), and so in the returned Context for every bool Option a token gave
\* a value to.
C27_BoolCoercion ==
    /\ pc = "start" =>
         \A v \in BoolSamples : Convert(PyStr(v), "bool") = PyBool(TruthyWord(v))
    /\ pc = "parsed" =>
         \A k \in 1..Len(Returned(ps).command.options) :
            LET opt == Returned(ps).command.options[k] IN
            (/\ opt.type = "bool"
             /\ Occurrences(ps, args, ps.ret, opt) # {}
             /\ LastSupplied(ps, args, ps.ret, opt) # PyNone) =>
                Returned(ps).options[opt.name] =
                    PyBool(TruthyWord(LastSupplied(ps, args, ps.ret, opt).v))

\* "--verbose True" parsed to True, after "--verbose False"
C27_Witness ==
    /\ pc = "parsed"
    /\ Len(args) = 4
    /\ args[1] = LongTok(verbose_) /\ args[2] = <<"F","a","l","s","e">>
    /\ args[3] = LongTok(verbose_) /\ args[4] = <<"T","r","u","e">>
    /\ Returned(ps).options[verbose_] = PyBool(TRUE)

-----------------------------------------------------------------------------
(* The registration methods of CLI and Group, called on a new CLI *)

\* CLI.__init__: the root Command, with no child yet
CmdRoot == Command(<<"m","y","a","p","p">>, Fn("_default_handler"), <<>>, <<>>, <<>>)

RegInit ==
    /\ root = CmdRoot
    /\ hooks = [before |-> <<>>, after |-> <<>>, error |-> <<>>]
    /\ args = <<>>
    /\ pc = "setup"
    /\ ps = NoParse
    /\ hk = 0
    /\ result = PyNone
    /\ raised = PyNone
    /\ status = PyNone
    /\ log = <<>>

\* a registration call, as the log keeps it
RegCall(ev, with) == Append(log, [ev |-> ev, hook |-> 0, with |-> with])

\* CLI.command(name)(fn), lines 154-159: a new Command under the root, in
\* place of the one of that name if there is one
CliCommand(name, fn) ==
    /\ pc = "setup"
    /\ Len(log) < MaxCalls
    /\ root' = [root EXCEPT !.subcommands =
                   DictSet(@, name, Command(name, fn, <<>>, <<>>, <<>>))]
    /\ log' = RegCall("command", [fn |-> fn, name |-> name])
    /\ UNCHANGED <<hooks, args, pc, ps, hk, result, raised, status>>

\* Group(cli, name), lines 232-237: a Command with a handler of its own under
\* the root. The model makes one Group of a name: a second one would replace
\* the Command in the tree and leave the first Group with a Command outside it.
NewGroup(name) ==
    /\ pc = "setup"
    /\ Len(log) < MaxCalls
    /\ name \notin DOMAIN root.subcommands
    /\ root' = [root EXCEPT !.subcommands =
                   DictSet(@, name, Command(name, Fn("group"), <<>>, <<>>, <<>>))]
    /\ log' = RegCall("group", [name |-> name])
    /\ UNCHANGED <<hooks, args, pc, ps, hk, result, raised, status>>

\* Group.command(name)(fn), lines 239-244, on the Group made with name group
GroupCommand(group, name, fn) ==
    /\ pc = "setup"
    /\ Len(log) < MaxCalls
    /\ group \in DOMAIN root.subcommands
    /\ root.subcommands[group].handler = Fn("group")
    /\ root' = [root EXCEPT !.subcommands[group].subcommands =
                   DictSet(@, name, Command(name, fn, <<>>, <<>>, <<>>))]
    /\ log' = RegCall("group.command", [fn |-> fn, name |-> name, group |-> group])
    /\ UNCHANGED <<hooks, args, pc, ps, hk, result, raised, status>>

\* the AttributeError of cmd.options on None
AttributeError(name) == [t |-> "raise", cls |-> "AttributeError", attr |-> name]

\* the decorator of CLI.option without `if cmd:`
CliOption_Unchecked(fn, opt) ==
    /\ pc = "setup"
    /\ Len(log) < MaxCalls
    /\ log' = RegCall("option", [fn |-> fn, option |-> opt])
    /\ IF FindCommandForHandler(fn) # PyNone
       THEN /\ root' = [root EXCEPT !.subcommands[FindCommandForHandler(fn).name].options =
                           Append(@, opt)]
            /\ UNCHANGED <<status, pc>>
       ELSE /\ status' = AttributeError("options")
            /\ pc' = "crashed"
            /\ root' = root
    /\ UNCHANGED <<hooks, args, ps, hk, result, raised>>

\* CLI.option(name, short, type, default, required, help)(fn), lines 161-167:
\* opt is the Option the decorator builds from its parameters
CliOption(fn, opt) ==
    /\ pc = "setup"
    /\ Len(log) < MaxCalls
    /\ log' = RegCall("option", [fn |-> fn, option |-> opt])
    /\ IF FindCommandForHandler(fn) # PyNone
       THEN root' = [root EXCEPT !.subcommands[FindCommandForHandler(fn).name].options =
                        Append(@, opt)]
       ELSE root' = root
    /\ UNCHANGED <<hooks, args, pc, ps, hk, result, raised, status>>

\* the Options given to CLI.option
RegOptions ==
    { Option(verbose_, "v", "bool", PyBool(FALSE)),
      [Option(count_, "c", "int", PyInt(1)) EXCEPT !.required = TRUE] }

RegNext ==
    \/ \E fn \in Functions : CliCommand(greet_, fn)
    \/ NewGroup(db_)
    \/ \E fn \in {Fn("db_migrate"), Fn("greet")} : GroupCommand(db_, migrate_, fn)
    \/ \E fn \in Functions, opt \in RegOptions : CliOption(fn, opt)
    \/ \E fn \in Functions : CliArgument(fn, who_, "str", TRUE, "")

RegSpec == RegInit /\ [][RegNext]_vars

\* the names of the root's children whose handler is fn
DirectChildren(fn) == {n \in DOMAIN root.subcommands : root.subcommands[n].handler = fn}

\* this step is a call of the decorator of CLI.option
OptionCall == Len(log') = Len(log) + 1 /\ log'[Len(log')].ev = "option"

\* C28: a call of CLI.option's decorator raises nothing; when the function is
\* the handler of a child of the root at that moment, the Option is appended
\* to that Command's options and nothing else changes; when it is not (it is
\* registered only under a Group, or not registered yet) the Command tree is
\* left as it is.
C28_OptionAttaches ==
    [][OptionCall =>
         LET call == log'[Len(log')].with IN
         /\ pc' = "setup" /\ status' = PyNone
         /\ hooks' = hooks
         /\ IF DirectChildren(call.fn) = {} THEN root' = root
            ELSE \E n \in DirectChildren(call.fn) :
                    root' = [root EXCEPT !.subcommands[n].options = Append(@, call.option)]]_vars

\* CLI.option applied to greet before greet is registered, which attached
\* nothing, then greet registered, then CLI.option applied again, which
\* attached its Option
C28_Witness ==
    /\ pc = "setup"
    /\ Len(log) = 3
    /\ log[1].ev = "option" /\ log[1].with.fn = Fn("greet")
    /\ log[2].ev = "command" /\ log[2].with.fn = Fn("greet")
    /\ log[3].ev = "option" /\ log[3].with.fn = Fn("greet")
    /\ root.subcommands[greet_].options = <<log[3].with.option>>

\* the Command declares a variadic Argument
HasVariadic(command) == \E k \in 1..Len(command.arguments) : Variadic(command.arguments[k])

\* the index of the first variadic Argument of the Command
FirstVariadic(command) ==
    CHOOSE k \in 1..Len(command.arguments) :
        /\ Variadic(command.arguments[k])
        /\ \A j \in 1..(k - 1) : ~Variadic(command.arguments[j])

\* the bare tokens of Context id's level, no subcommand names, from the k-th on
BareFrom(P, tokens, id, k) ==
    LET bare == BareAt(P, tokens, id)
    IN  [j \in 1..(Len(bare) - (k - 1)) |-> tokens[bare[j + k - 1].pos]]

\* C29: the positional index of a running call never passes a variadic
\* Argument, and every bare token (no subcommand name) of the level from the
\* one that reached the variadic Argument on is appended to it: in the Context
\* the parse returns the variadic Argument is the list of all of them, coerced,
\* in order, and every Argument declared after it is its default.
C29_VariadicHolds ==
    /\ \A n \in 1..Len(ps.frames) : Scalars(ps.frames[n].command, ps.frames[n].arg_idx)
    /\ \A n \in 1..Len(ps.frames) :
          LET f == ps.frames[n]
              v == f.command.arguments[FirstVariadic(f.command)]
              got == BareFrom(ps, args, f.ctx, FirstVariadic(f.command))
          IN  (HasVariadic(f.command) /\ got # <<>> /\ ps.exc = PyNone) =>
                 /\ v.name \in DOMAIN f.collected_args
                 /\ f.collected_args[v.name] =
                      [j \in 1..Len(got) |-> Convert(PyStr(got[j]), v.type)]
    /\ pc = "parsed" =>
          LET ctx == Returned(ps)
              first == FirstVariadic(ctx.command)
              v == ctx.command.arguments[first]
              got == BareFrom(ps, args, ps.ret, first)
          IN  HasVariadic(ctx.command) =>
                 /\ got # <<>> =>
                      ctx.arguments[v.name] =
                         PyList([j \in 1..Len(got) |-> Convert(PyStr(got[j]), v.type)])
                 /\ \A k \in (first + 1)..Len(ctx.command.arguments) :
                       /\ ctx.command.arguments[k].name \in DOMAIN ctx.arguments
                       /\ ctx.arguments[ctx.command.arguments[k].name] =
                            ctx.command.arguments[k].default

\* a parse with an option between two bare tokens, both appended to the
\* variadic Argument, the Argument declared after it left at its default
C29_Witness ==
    /\ pc = "parsed"
    /\ HasVariadic(Returned(ps).command)
    /\ FirstVariadic(Returned(ps).command) < Len(Returned(ps).command.arguments)
    /\ Len(BareFrom(ps, args, ps.ret, 1)) = 2
    /\ Len(args) = 4
    /\ ~IsBare(args[2])
    /\ Returned(ps).arguments[files_] = PyList(<<PyStr(args[1]), PyStr(args[4])>>)
    /\ Returned(ps).arguments[dest_] = PyStr(World)

-----------------------------------------------------------------------------
(* Parser(root).parse(args) run to its end: the call is sequential code, so a
   step that can be taken is taken *)

\* the Commands and tokens of the parses followed to their end
LiveScenarios ==
    { [command |-> CmdApp, tokens |-> {db_, migrate_, LongTok(verbose_)}],
      [command |-> CmdGreet, tokens |-> {Ada, ShortTok("n"), ShortTok("z")}],
      [command |-> CmdCopy, tokens |-> {<<"a">>, db_, EqTok(bogus_, <<"x">>)}],
      [command |-> CmdSum, tokens |-> {<<"1">>, <<"x">>, ShortTok("v")}] }

LiveInit ==
    /\ \E sc \in LiveScenarios :
         /\ root = sc.command
         /\ args \in SeqsUpTo(sc.tokens, MaxLiveLen)
    /\ hooks = [before |-> <<>>, after |-> <<>>, error |-> <<>>]
    /\ pc = "start"
    /\ ps = NoParse
    /\ hk = 0
    /\ result = PyNone
    /\ raised = PyNone
    /\ status = PyNone
    /\ log = <<>>

LiveSpec == LiveInit /\ [][Next]_vars /\ WF_vars(Next)

\* the loop turn e read the token behind its own as the value of an option
TookValue(P, tokens, e) ==
    /\ e.pos < Len(tokens)
    /\ \/ IsLongNoEq(tokens[e.pos])
       \/ /\ IsShort(tokens[e.pos])
          /\ FindOptionShort(CommandAt(P, e), tokens[e.pos][2]) # PyNone

\* the Contexts of the calls that examined the token at p: had it at the
\* cursor, or read it as the value of the option token before it
Examiners(P, tokens, p) ==
    {P.scanned[j].ctx : j \in {k \in 1..Len(P.scanned) :
        \/ P.scanned[k].pos = p
        \/ P.scanned[k].pos = p - 1 /\ TookValue(P, tokens, P.scanned[k])}}

\* one pass from left to right: the tokens at the cursor, loop turn after loop
\* turn and call after call, are at increasing positions, no token is examined
\* by two calls, and a parse that returned has examined every token
OnePass ==
    /\ \A j \in 1..(Len(ps.scanned) - 1) :
          /\ ps.scanned[j].pos < ps.scanned[j + 1].pos
          /\ ps.scanned[j].ctx <= ps.scanned[j + 1].ctx
    /\ \A p \in 1..Len(args) : Cardinality(Examiners(ps, args, p)) <= 1
    /\ pc = "parsed" => \A p \in 1..Len(args) : Cardinality(Examiners(ps, args, p)) = 1

\* a loop turn that stays in its call moves the cursor forward, and a
\* delegation gives the child fewer tokens than the call has
CursorAdvances ==
    /\ (pc = "parse" /\ InLoop(ps) /\ ps'.exc = PyNone /\ Len(ps'.frames) = Len(ps.frames))
          => Top(ps').i > Top(ps).i
    /\ (pc = "parse" /\ InLoop(ps) /\ Len(ps'.frames) > Len(ps.frames))
          => /\ Len(Top(ps').args) < Len(Top(ps).args)
             /\ Top(ps').args = DropFirst(Top(ps).args, Top(ps).i + 1)

\* C30: every parse ends, returning or raising; on the way each loop turn
\* moves the cursor forward, each delegation passes a strictly shorter token
\* list, and every token is examined by exactly one call of parse.
C30_Terminates ==
    /\ <>Done
    /\ []OnePass
    /\ [][CursorAdvances]_vars

\* a parse of three tokens through two calls that returned: an option and its
\* value, then a delegation
C30_Witness ==
    /\ pc = "parsed"
    /\ Len(args) = 3
    /\ Len(ps.heap) = 2
    /\ Len(ps.scanned) = 2
    /\ TookValue(ps, args, ps.scanned[1])

\* the Option the loop turn e named: by "--name" with no "=", or by "-n"
NamedBare(P, tokens, e) ==
    IF IsLongNoEq(tokens[e.pos]) THEN FindOption(CommandAt(P, e), LongKey(tokens[e.pos]))
    ELSE IF IsShort(tokens[e.pos]) THEN FindOptionShort(CommandAt(P, e), tokens[e.pos][2])
    ELSE PyNone

\* C31: when the last token of the list is at the parser's cursor and names a
\* declared Option, as "--name" with no "=" or as "-n", the parse raises
\* nothing for it and the returned Context holds None for that Option,
\* whatever its type: not its default and not a boolean.
C31_NoValueIsNone ==
    Done => \A j \in 1..Len(ps.scanned) :
        LET e == ps.scanned[j]
            opt == NamedBare(ps, args, e)
        IN  (e.pos = Len(args) /\ opt # PyNone) =>
               /\ pc = "parsed"
               /\ ps.ret = e.ctx
               /\ opt.name \in DOMAIN Returned(ps).options
               /\ Returned(ps).options[opt.name] = PyNone

\* a parse that gave a bool or int Option (its default not None) a value, then
\* ended on the Option's name alone
C31_Witness ==
    /\ pc = "parsed"
    /\ Len(args) >= 3
    /\ \E j \in 1..Len(ps.scanned) :
          LET e == ps.scanned[j]
              opt == NamedBare(ps, args, e)
          IN  /\ e.pos = Len(args)
              /\ opt # PyNone
              /\ opt.type \in {"bool", "int"}
              /\ opt.default # PyNone
              /\ Occurrences(ps, args, ps.ret, opt) # {j}
              /\ Returned(ps).options[opt.name] = PyNone

\* tokens without the option token at p and the value token it took
WithoutOccurrence(tokens, p) ==
    IF IsLong(tokens[p]) /\ Contains(LongKey(tokens[p]), "=")
    THEN Remove1(tokens, p) ELSE Remove2(tokens, p)

\* C32: when tokens of one level name a declared Option more than once, as
\* "--name", "--name=value" or "-n" in any mix, a parse that returns leaves
\* in that level's Context the coerced value of the last of them, and no
\* trace of an earlier one: the parse ends as the parse of the token list
\* without that earlier token and its value ends.
C32_LastWins ==
    pc = "parsed" =>
      \A id \in 1..Len(ps.heap) : \A k \in 1..Len(ps.heap[id].command.options) :
         LET opt == ps.heap[id].command.options[k]
             occ == OccurrenceSeq(ps, args, id, opt)
         IN  Len(occ) >= 2 =>
               /\ opt.name \in DOMAIN ps.heap[id].options
               /\ ps.heap[id].options[opt.name] =
                    Convert(LastSupplied(ps, args, id, opt), opt.type)
               /\ \A n \in 1..(Len(occ) - 1) :
                     Outcome(Parse(root, WithoutOccurrence(args, occ[n].e.pos))) = Outcome(ps)

\* an Option named by "--name" and then by "-n", or the other way round, with
\* different values: the Context holds the second
C32_Witness ==
    /\ pc = "parsed"
    /\ \E k \in 1..Len(Returned(ps).command.options) :
          LET opt == Returned(ps).command.options[k]
              occ == OccurrenceSeq(ps, args, ps.ret, opt)
          IN  /\ Len(occ) = 2
              /\ IsLong(args[occ[1].e.pos]) # IsLong(args[occ[2].e.pos])
              /\ SuppliedValue(args, occ[1].e.pos) # SuppliedValue(args, occ[2].e.pos)
              /\ Returned(ps).options[opt.name] = SuppliedValue(args, occ[2].e.pos)

\* the Options of Context id's Command that a token of its level named
NamedOptions(P, tokens, id) ==
    {P.heap[id].command.options[k].name : k \in {j \in 1..Len(P.heap[id].command.options) :
        Occurrences(P, tokens, id, P.heap[id].command.options[j]) # {}}}

\* the Arguments of Context id's Command, one token each, that a bare token of
\* its level reached
BoundScalars(P, tokens, id) ==
    {P.heap[id].command.arguments[k].name : k \in {j \in 1..Len(P.heap[id].command.arguments) :
        j <= Len(BareAt(P, tokens, id)) /\ Scalars(P.heap[id].command, j)}}

\* C33: the Context of a call that delegated to a subcommand has no entry for
\* a variadic Argument, whatever tokens had reached it, and no defaults; it
\* keeps the Arguments of one token each and the Options that the tokens
\* before the subcommand's name bound, with their coerced values.
C33_DelegationDropsVariadic ==
    \A id \in 1..Len(ps.heap) :
       Delegations(ps, args, id) # {} =>
          LET ctx == ps.heap[id]
              bare == BareAt(ps, args, id)
          IN  /\ \A k \in 1..Len(ctx.command.arguments) :
                    Variadic(ctx.command.arguments[k]) =>
                       ctx.command.arguments[k].name \notin DOMAIN ctx.arguments
              /\ DOMAIN ctx.arguments = BoundScalars(ps, args, id)
              /\ \A k \in 1..Len(ctx.command.arguments) :
                    ctx.command.arguments[k].name \in BoundScalars(ps, args, id) =>
                       ctx.arguments[ctx.command.arguments[k].name] =
                          Convert(PyStr(args[bare[k].pos]), ctx.command.arguments[k].type)
              /\ DOMAIN ctx.options = NamedOptions(ps, args, id)
              /\ \A k \in 1..Len(ctx.command.options) :
                    ctx.command.options[k].name \in NamedOptions(ps, args, id) =>
                       ctx.options[ctx.command.options[k].name] =
                          Convert(LastSupplied(ps, args, id, ctx.command.options[k]),
                                  ctx.command.options[k].type)

\* a returned parse whose first call bound its first Argument, collected a
\* token for its variadic Argument and then delegated
C33_Witness ==
    /\ pc = "parsed"
    /\ Delegations(ps, args, 1) # {}
    /\ HasVariadic(root)
    /\ Len(BareAt(ps, args, 1)) >= FirstVariadic(root)
    /\ BoundScalars(ps, args, 1) # {}
    /\ DOMAIN ps.heap[1].arguments = BoundScalars(ps, args, 1)
    /\ Returned(ps).parent = 1

\* the positions behind the first at which the list has a help or version flag
LaterFlags == {p \in 2..Len(args) : args[p] \in HelpFlags \cup VersionFlags}

\* C34: in a run whose token list has a help or version flag behind its first
\* token, and none as its first token, run prints neither help nor version:
\* once the before hooks have returned it parses the whole list, the flag
\* being to the parser an option token like any other (at the cursor of a
\* loop as a long or short option, or the value of the option before it), and
\* when the parse resolves a command that command's handler is called.
C34_FlagsFirstOnly ==
    (RunOver /\ ~ShortCircuits /\ LaterFlags # {}) =>
        /\ Calls({"help", "version"}) = {}
        /\ status # Raised("before") =>
             /\ Cardinality(Calls({"parse"})) = 1
             /\ ps = Parse(root, args)
             /\ \A p \in LaterFlags :
                   \/ ps.exc # PyNone
                   \/ \E j \in 1..Len(ps.scanned) :
                         \/ ps.scanned[j].pos = p /\ ~IsBare(args[p])
                         \/ ps.scanned[j].pos = p - 1 /\ TookValue(ps, args, ps.scanned[j])
             /\ ps.ret # 0 =>
                   /\ Cardinality(Handled) = 1
                   /\ \A j \in Handled : log[j].with = ps.ret

\* run(["greet", "-h", ...]) returned after calling greet's handler
C34_Witness ==
    /\ pc = "returned"
    /\ Len(args) >= 2
    /\ args[1] = greet_ /\ args[2] \in HelpFlags
    /\ Handled # {}
    /\ Returned(ps).command = CmdGreet
    /\ Calls({"help", "version"}) = {}

\* no token of the list takes the parse of the root to one of its children
NoTopLevelCommand == Delegations(Parse(root, args), args, 1) = {}

\* the run called the root's handler with the root's Context, the handler
\* returned 0, every after hook was called with that Context and 0, no error
\* hook was called and run returned 0
RootDefaultRun ==
    /\ ps.ret = 1 /\ Returned(ps).command = root
    /\ root.handler = Fn("_default_handler")
    /\ Cardinality(Handled) = 1
    /\ \A j \in Handled : log[j].with = 1
    /\ result = PyInt(0)
    /\ HookCalls("after") = hooks.after
    /\ \A k \in 1..Len(AfterCalls) : AfterCalls[k].with = <<1, PyInt(0)>>
    /\ Calls({"error"}) = {}
    /\ pc = "returned" /\ status = PyInt(0)

-----------------------------------------------------------------------------
(* Context.get *)

\* d.get(k, x) on a dict
DictGet(d, k, x) == IF k \in DOMAIN d THEN d[k] ELSE x

\* a get that goes on to the nearest Context up the parent links that has the
\* key among its options
Get_ConsultsParent(ctx, key, default) ==
    LET up == {k \in ChainIds(ps.heap, ctx.parent) : key \in DOMAIN ps.heap[k].options}
    IN  IF key \in DOMAIN ctx.options THEN ctx.options[key]
        ELSE IF key \in DOMAIN ctx.arguments THEN ctx.arguments[key]
        ELSE IF up # {} THEN ps.heap[CHOOSE k \in up : \A n \in up : n <= k].options[key]
        ELSE default

\* Context.get(key, default)
Get(ctx, key, default) == DictGet(ctx.options, key, DictGet(ctx.arguments, key, default))

\* the keys, values and defaults get is tried on
GetKeys == {name_, count_, who_, verbose_, ratio_, src_, files_, nums_, dest_, bogus_}
GetValues == {PyNone, PyInt(0), PyStr(Ada)}
GetDefaults == {PyNone, PyInt(1), PyStr(World)}

\* the dicts over name and count, and the parentless Contexts made of them: a
\* Command may declare an Option and an Argument of one name, so a key may be
\* in both dicts of a Context
GetDicts == UNION {[S -> GetValues] : S \in SUBSET {name_, count_}}
GetContexts ==
    {[options |-> o, arguments |-> a, parent |-> 0, command |-> PyNone] : o \in GetDicts, a \in GetDicts}

\* what get gives on ctx: the options entry if there is one, else the
\* arguments entry if there is one, else the default
GetsOwn(ctx, key, default) ==
    LET g == Get(ctx, key, default)
    IN  /\ key \in DOMAIN ctx.options => g = ctx.options[key]
        /\ (key \notin DOMAIN ctx.options /\ key \in DOMAIN ctx.arguments) => g = ctx.arguments[key]
        /\ (key \notin DOMAIN ctx.options /\ key \notin DOMAIN ctx.arguments) => g = default

\* the keys some Context above the returned one has among its options while
\* the returned one has them in neither dict
AncestorOnly(P) ==
    {key \in GetKeys :
        /\ key \notin (DOMAIN Returned(P).options) \cup (DOMAIN Returned(P).arguments)
        /\ \E k \in ChainIds(P.heap, Returned(P).parent) : key \in DOMAIN P.heap[k].options}

\* C36: Context.get(key, default) is the options entry for key whenever key is
\* in options, a None entry included; otherwise the arguments entry if key is
\* in arguments; otherwise default. It never looks at the parent Context: on
\* the Context a parse returns, a key that only a Context up the parent links
\* has among its options gets the default.
C36_GetOwnOnly ==
    /\ (pc = "start" /\ args = <<>>) =>
          \A ctx \in GetContexts : \A key \in {name_, count_, who_} : \A d \in GetDefaults :
              GetsOwn(ctx, key, d)
    /\ (Done /\ ps.ret # 0) =>
          /\ \A key \in GetKeys : \A d \in GetDefaults : GetsOwn(Returned(ps), key, d)
          /\ \A key \in AncestorOnly(ps) : \A d \in GetDefaults : Get(Returned(ps), key, d) = d

\* "--verbose" with its value before a subcommand token: the root's Context
\* holds verbose, the returned Context is a child's and get gives the default
C36_Witness ==
    /\ pc = "parsed"
    /\ Len(args) >= 3
    /\ args[1] = LongTok(verbose_)
    /\ Returned(ps).parent # 0
    /\ verbose_ \in AncestorOnly(ps)
    /\ ps.heap[1].options[verbose_] = PyBool(FALSE)
    /\ Get(Returned(ps), verbose_, PyBool(TRUE)) = PyBool(TRUE)
====
